---- MODULE Spec2Model ----
(***************************************************************************)
(* A model of the ZiPatch reader: the chunk codec (ZiPatchChunk::read with *)
(* its checksum reader and position guard), the SQPK and FHDR decoders,    *)
(* and the patch driver (ZiPatchFile::new and the two inspection passes).  *)
(*                                                                         *)
(* A stream is a sequence of bytes (0..255).  A 32-bit word that is only   *)
(* compared (a CRC, the magic) is kept as its four big-endian bytes; a     *)
(* u32 that is used as a length is a number, clamped at Huge (see there).  *)
(* A string is the sequence of its character codes.                        *)
(***************************************************************************)
EXTENDS Integers, Sequences, FiniteSets, TLC

(***************************************************************************)
(* Bounds of the model.                                                    *)
(***************************************************************************)
\* A length of 2^30 or more is kept as Huge: every stream of the model is
\* shorter, so a read of that many bytes fails and a seek that far lands
\* beyond the end, whatever the exact value.
Huge == 1073741824
\* Bit flips are applied to the first MaxFlipOffset bytes of a chunk body.
MaxFlipOffset == 40
\* The number of files, removed ones included, from which on no further
\* patch is applied.
MaxFiles == 10

\* The largest number of tries wait_for_stream is called with.
MaxTries == 4

\* The number of get_stream calls made on one store.
MaxCalls == 3

\* The largest size of an AdvanceGuard created on its own, and the largest
\* number of bytes one read through it asks for.
MaxGuardSize == 4
MaxGuardRead == 3

\* The number of times next is called on an iterator that is done.
MaxNone == 2

\* The number of passes that apply a patch after an inspection of it.
MaxPasses == 2

(***************************************************************************)
(* Bytes and bit operations.                                               *)
(***************************************************************************)
Byte == 0..255

Min(a, b) == IF a < b THEN a ELSE b

Pow2(k) == CASE k = 0 -> 1 [] k = 1 -> 2 [] k = 2 -> 4 [] k = 3 -> 8
             [] k = 4 -> 16 [] k = 5 -> 32 [] k = 6 -> 64 [] k = 7 -> 128

\* Bit k of a.
Bit(a, k) == (a \div Pow2(k)) % 2

\* The tuple <<F(lo), ..., F(hi)>>, built by halves.
RECURSIVE TupleOf(_, _, _)
TupleOf(F(_), lo, hi) ==
    IF lo = hi THEN <<F(lo)>>
    ELSE TupleOf(F, lo, (lo + hi) \div 2) \o TupleOf(F, (lo + hi) \div 2 + 1, hi)

\* XOR of two 4-bit values.
XorBits(a, b) ==
      ((Bit(a, 0) + Bit(b, 0)) % 2)
    + 2 * ((Bit(a, 1) + Bit(b, 1)) % 2)
    + 4 * ((Bit(a, 2) + Bit(b, 2)) % 2)
    + 8 * ((Bit(a, 3) + Bit(b, 3)) % 2)

\* The table of XorBits: XorNibble[a + 1][b + 1].
XorNibbleRow(a) == LET F(b) == XorBits(a, b) IN TupleOf(F, 0, 15)
XorNibble == TupleOf(XorNibbleRow, 0, 15)

\* XOR of two bytes.
Xor8(a, b) == 16 * XorNibble[(a \div 16) + 1][(b \div 16) + 1]
              + XorNibble[(a % 16) + 1][(b % 16) + 1]

\* XOR of two 32-bit words (four big-endian bytes each).
XorWord(v, w) == <<Xor8(v[1], w[1]), Xor8(v[2], w[2]), Xor8(v[3], w[3]), Xor8(v[4], w[4])>>

\* A 32-bit word shifted right by one bit.
ShrWord1(w) == <<w[1] \div 2,
                 (w[2] \div 2) + 128 * (w[1] % 2),
                 (w[3] \div 2) + 128 * (w[2] % 2),
                 (w[4] \div 2) + 128 * (w[3] % 2)>>

(***************************************************************************)
(* CRC32 (util/crc32.rs wraps crc32fast::Hasher: the IEEE polynomial,      *)
(* reflected, initial value and final XOR 0xFFFFFFFF).                     *)
(***************************************************************************)
Crc32Poly == <<237, 184, 131, 32>>          \* 0xEDB88320

RECURSIVE CrcTableEntry(_, _)
CrcTableEntry(w, k) ==
    IF k = 0 THEN w
    ELSE CrcTableEntry(IF w[4] % 2 = 1 THEN XorWord(ShrWord1(w), Crc32Poly)
                                       ELSE ShrWord1(w), k - 1)

\* The table of the byte-wise algorithm: CrcTable[i + 1] for byte i.
CrcTableAt(i) == CrcTableEntry(<<0, 0, 0, i>>, 8)
CrcTable == TupleOf(CrcTableAt, 0, 255)

\* One byte folded into the CRC register.
CrcFold(c, t) == <<t[1], Xor8(t[2], c[1]), Xor8(t[3], c[2]), Xor8(t[4], c[3])>>
CrcStep(c, b) == CrcFold(c, CrcTable[Xor8(c[4], b) + 1])

\* The register after bytes s[from..to] are folded into c, by halves: the
\* left half's register is a value before the right half is entered.
RECURSIVE CrcRun(_, _, _, _)
CrcRun(c, s, from, to) ==
    IF from > to THEN c
    ELSE IF from = to THEN CrcStep(c, s[to])
    ELSE LET mid == (from + to) \div 2
         IN  CHOOSE r \in {CrcRun(m, s, mid + 1, to) : m \in {CrcRun(c, s, from, mid)}} : TRUE

\* Crc32::calculate / Hasher::finalize over the bytes fed since init.
Crc32(s) ==
    CHOOSE r \in {XorWord(CrcRun(<<255, 255, 255, 255>>, v, 1, Len(v)), <<255, 255, 255, 255>>)
                  : v \in {s}} : TRUE

(***************************************************************************)
(* Integer decoding (util/binary_reader.rs, through byteorder).            *)
(***************************************************************************)
\* A u16 from two bytes, most significant first.
U16(b) == b[1] * 256 + b[2]

\* A u32 from four bytes, most significant first; 2^30 and above is Huge.
U32(b) == IF b[1] >= 64 THEN Huge
          ELSE ((b[1] * 256 + b[2]) * 256 + b[3]) * 256 + b[4]

\* An i32 from four bytes, most significant first (two's complement).
I32(b) == LET low31 == (((b[1] % 128) * 256 + b[2]) * 256 + b[3]) * 256 + b[4]
          IN  IF b[1] >= 128 THEN (low31 - 2147483647) - 1 ELSE low31

\* The bytes of a little-endian field, most significant first.
Reverse(b) == [i \in 1..Len(b) |-> b[Len(b) + 1 - i]]

\* `outer_size as i32`: the same 32 bits read as a signed number.  The
\* number the model keeps for a u32 is exact below 2^30, so the cast is
\* taken on the four bytes of the size word.
AsI32(sizeBytes) == I32(sizeBytes)

\* An i64 from eight bytes, most significant first: exact in 0..2^30-1,
\* Huge above, -1 for every negative value.
I64(b) == IF b[1] >= 128 THEN -1
          ELSE IF b[1] + b[2] + b[3] + b[4] > 0 THEN Huge
          ELSE U32(<<b[5], b[6], b[7], b[8]>>)

\* x << 7 on a length, saturating at Huge.
Shl7(x) == IF x >= Huge \div 128 THEN Huge ELSE x * 128

(***************************************************************************)
(* The checksum reader over the stream (util/checksum_reader.rs).  A       *)
(* reader is [pos, crc32]: the position of the inner stream and the        *)
(* hasher.  The state of a hasher is a function of the bytes it was given  *)
(* since it was made, so the hasher is kept as that byte sequence and      *)
(* finalize computes the CRC of it.                                        *)
(***************************************************************************)
\* Crc32::new, Crc32::init: a hasher that has seen nothing.
Crc32_new == <<>>

\* Crc32::update
Crc32_update(h, bytes) == h \o bytes

\* ChecksumReader::init_crc32
init_crc32(r) == [r EXCEPT !.crc32 = Crc32_new]

\* ChecksumReader::get_crc32 (Crc32::finalize on a clone of the hasher)
get_crc32(r) == Crc32(r.crc32)

\* ChecksumReader::read_exact of n bytes of stream d.  The inner stream (a
\* file, a cursor) fails when fewer than n bytes are left, and is then at
\* its end; the hasher is updated only after a successful read.
read_exact(d, r, n) ==
    IF r.pos + n <= Len(d)
    THEN [ok |-> TRUE,
          bytes |-> SubSeq(d, r.pos + 1, r.pos + n),
          r |-> [pos |-> r.pos + n,
                 crc32 |-> Crc32_update(r.crc32, SubSeq(d, r.pos + 1, r.pos + n))]]
    ELSE [ok |-> FALSE,
          bytes |-> <<>>,
          r |-> [pos |-> IF r.pos > Len(d) THEN r.pos ELSE Len(d), crc32 |-> r.crc32]]

\* ChecksumReader::seek: the inner stream moves, the hasher sees nothing.
seek(r, to) == [r EXCEPT !.pos = to]

\* Consecutive read_exact calls of the widths ws, stopping at the first
\* that fails: [ok, r, f], f the fields read.
RECURSIVE ReadFields(_, _, _)
ReadFields(d, r, ws) ==
    IF ws = <<>> THEN [ok |-> TRUE, r |-> r, f |-> <<>>]
    ELSE LET one == read_exact(d, r, Head(ws))
         IN  IF ~one.ok THEN [ok |-> FALSE, r |-> one.r, f |-> <<>>]
             ELSE LET rest == ReadFields(d, one.r, Tail(ws))
                  IN  [ok |-> rest.ok, r |-> rest.r, f |-> <<one.bytes>> \o rest.f]

\* The index of the first NUL of b, or Len(b) + 1.
FirstNul(b) == IF \E i \in 1..Len(b) : b[i] = 0
               THEN CHOOSE i \in 1..Len(b) : b[i] = 0 /\ \A j \in 1..(i - 1) : b[j] # 0
               ELSE Len(b) + 1

\* BinaryReaderExt::read_fixed_string on the bytes read: cut at the first
\* NUL, then String::from_utf8_lossy.  A byte above 127 that stands alone
\* between ASCII bytes is no valid UTF-8 and becomes U+FFFD (65533); the
\* streams of the model hold no longer run of such bytes.
fixed_string(b) ==
    LET n == FirstNul(b) - 1
    IN  [i \in 1..n |-> IF b[i] < 128 THEN b[i] ELSE 65533]

\* Results of a decoder: a value or an error, with the reader after it.
Ok(r, v) == [ok |-> TRUE, r |-> r, val |-> v]
Fail(r, e) == [ok |-> FALSE, r |-> r, val |-> e]
IoError == [kind |-> "Io"]

(***************************************************************************)
(* The position guard (util/advance_guard.rs).                             *)
(***************************************************************************)
\* The buffer of the guard's drain loop.
DrainBufferSize == 8192

\* AdvanceGuard::new: the expected end position of a body of `size` bytes.
AdvanceGuard_new(r, size) ==
    [offset_before |-> r.pos, offset_after |-> r.pos + size]

\* A guard that does nothing when it is dropped.
AdvanceGuard_drop_nothing(d, r, guard) == r

\* Drop for AdvanceGuard: when the stream is before the expected end, the
\* rest is read through the checksum reader in buffers; a stream at or
\* beyond the expected end is left where it is.
AdvanceGuard_drop(d, r, guard) ==
    IF r.pos < guard.offset_after
    THEN LET remaining == guard.offset_after - r.pos
             bufLen == Min(remaining, DrainBufferSize)
             avail == IF Len(d) > r.pos THEN Len(d) - r.pos ELSE 0
         IN  IF remaining <= avail
             THEN \* every read_exact of the loop succeeds
                  [pos |-> guard.offset_after,
                   crc32 |-> Crc32_update(r.crc32,
                                 SubSeq(d, r.pos + 1, guard.offset_after))]
             ELSE \* the buffers that fit are read, the next read fails and
                  \* the stream is moved by a seek
                  [pos |-> guard.offset_after,
                   crc32 |-> Crc32_update(r.crc32,
                                 SubSeq(d, r.pos + 1,
                                        r.pos + (avail \div bufLen) * bufLen))]
    ELSE r

(***************************************************************************)
(* The decoders of the chunk variants.  Each takes the stream d and the    *)
(* reader r at the start of the body and gives Ok(r', chunk) or            *)
(* Fail(r', error).  None of them looks at the size of the chunk.          *)
(***************************************************************************)
TAG_FHDR == <<70, 72, 68, 82>>        \* "FHDR"
TAG_APLY == <<65, 80, 76, 89>>        \* "APLY"
TAG_APFS == <<65, 80, 70, 83>>        \* "APFS"
TAG_ADIR == <<65, 68, 73, 82>>        \* "ADIR"
TAG_DELD == <<68, 69, 76, 68>>        \* "DELD"
TAG_SQPK == <<83, 81, 80, 75>>        \* "SQPK"
TAG_EOF == <<69, 79, 70, 95>>         \* "EOF_"
TAG_XXXX == <<88, 88, 88, 88>>        \* "XXXX"

\* ZiPatchCommandCounts::with_counts
with_counts(adir, deld, total, sqpk_add, sqpk_delete, sqpk_expand, sqpk_header, sqpk_file) ==
    [add_directories |-> adir,
     delete_directories |-> deld,
     total_commands |-> total,
     sqpk_add_commands |-> sqpk_add,
     sqpk_delete_commands |-> sqpk_delete,
     sqpk_expand_commands |-> sqpk_expand,
     sqpk_header_commands |-> sqpk_header,
     sqpk_file_commands |-> sqpk_file]

\* The lower half of the little-endian word b.
VersionLower16(b) == b[1] + 256 * b[2]

\* The value `version_field >> 16` of the little-endian word b.
VersionUpper16(b) == b[3] + 256 * b[4]

\* FileHeaderChunk::read, in the steps of its code; each step is given the
\* result of the read before it.  command_counts is <<>> for None and <<c>>
\* for Some(c); delete_data_size keeps its two words.
\* The chunk built from the fields h that follow the version word.
FileHeaderChunk_fields(version, h) ==
    IF ~h.ok THEN Fail(h.r, IoError)
    ELSE Ok(h.r,
            [type |-> "FHDR",
             version |-> version,
             patch_type |-> fixed_string(h.f[1]),
             entry_files |-> U32(h.f[2]),
             command_counts |->
                 IF version = 3
                 THEN <<with_counts(U32(h.f[3]), U32(h.f[4]), U32(h.f[9]),
                                    U32(h.f[10]), U32(h.f[11]), U32(h.f[12]),
                                    U32(h.f[13]), U32(h.f[14]))>>
                 ELSE <<>>,
             add_directories |-> IF version = 3 THEN U32(h.f[3]) ELSE 0,
             delete_directories |-> IF version = 3 THEN U32(h.f[4]) ELSE 0,
             delete_data_size |-> IF version = 3
                                  THEN [low |-> U32(h.f[5]), high |-> U32(h.f[6])]
                                  ELSE [low |-> 0, high |-> 0],
             minor_version |-> IF version = 3 THEN U32(h.f[7]) ELSE 0,
             repository_name |-> IF version = 3 THEN U32(h.f[8]) ELSE 0])

\* The test of the version, r being the reader after the version word.
FileHeaderChunk_version(d, r, version) ==
    IF version # 2 /\ version # 3
    THEN Fail(r, [kind |-> "InvalidFileHeaderVersion", version |-> version])
    ELSE FileHeaderChunk_fields(version,
             ReadFields(d, r, IF version = 3
                              THEN <<4, 4, 4, 4, 4, 4, 4, 4, 4, 4, 4, 4, 4, 4>>
                              ELSE <<4, 4>>))

\* vf is the read of the version word; the version is `(.. >> 16) as u8`.
FileHeaderChunk_version_field(d, vf) ==
    IF ~vf.ok THEN Fail(vf.r, IoError)
    ELSE FileHeaderChunk_version(d, vf.r, VersionUpper16(vf.bytes) % 256)

FileHeaderChunk_read(d, r) == FileHeaderChunk_version_field(d, read_exact(d, r, 4))

\* ApplyOptionKind::from_u32
ApplyOptionKind_from_u32(value) ==
    CASE value = 1 -> "IgnoreMissing"
      [] value = 2 -> "IgnoreOldMismatch"
      [] OTHER -> "Unknown"

\* ApplyOptionChunk::read
ApplyOptionChunk_new(r, option_kind, value) ==
    Ok(r, [type |-> "APLY",
           option_kind |-> option_kind,
           option_value |-> option_kind # "Unknown" /\ value # 0])

ApplyOptionChunk_fields(h) ==
    IF ~h.ok THEN Fail(h.r, IoError)
    ELSE ApplyOptionChunk_new(h.r, ApplyOptionKind_from_u32(U32(h.f[1])), U32(h.f[3]))

ApplyOptionChunk_read(d, r) == ApplyOptionChunk_fields(ReadFields(d, r, <<4, 4, 4>>))

\* ApplyFreeSpaceChunk::read
ApplyFreeSpaceChunk_fields(h) ==
    IF ~h.ok THEN Fail(h.r, IoError)
    ELSE Ok(h.r, [type |-> "APFS",
                  unknown_field_a |-> I64(h.f[1]),
                  unknown_field_b |-> I64(h.f[2])])

ApplyFreeSpaceChunk_read(d, r) == ApplyFreeSpaceChunk_fields(ReadFields(d, r, <<8, 8>>))

\* The body shared by AddDirectoryChunk::read and DeleteDirectoryChunk::read:
\* a length word and a string of that many bytes.
DirNameChunk_name(name, type) ==
    IF ~name.ok THEN Fail(name.r, IoError)
    ELSE Ok(name.r, [type |-> type, dir_name |-> fixed_string(name.bytes)])

DirNameChunk_len(d, len, type) ==
    IF ~len.ok THEN Fail(len.r, IoError)
    ELSE DirNameChunk_name(read_exact(d, len.r, U32(len.bytes)), type)

DirNameChunk_read(d, r, type) == DirNameChunk_len(d, read_exact(d, r, 4), type)

\* AddDirectoryChunk::read
AddDirectoryChunk_read(d, r) == DirNameChunk_read(d, r, "ADIR")

\* DeleteDirectoryChunk::read
DeleteDirectoryChunk_read(d, r) == DirNameChunk_read(d, r, "DELD")

\* EndOfFileChunk::read
EndOfFileChunk_read(d, r) == Ok(r, [type |-> "EOF_"])

\* XXXXChunk::read
XXXXChunk_read(d, r) == Ok(r, [type |-> "XXXX"])

(***************************************************************************)
(* The SQPK commands (chunk/sqpk).                                         *)
(***************************************************************************)
\* SqpackFile::read_from on the eight bytes of a pack file identifier.
SqpackFile_read_from(b) ==
    [main_id |-> U16(<<b[1], b[2]>>),
     sub_id |-> U16(<<b[3], b[4]>>),
     file_id |-> U32(<<b[5], b[6], b[7], b[8]>>)]

\* The framing of SqpkAddData::read: three alignment bytes, the pack file,
\* three words shifted left by 7, then block_number bytes of data.
AddDataFraming_data(h, data, cmd) ==
    IF ~data.ok THEN Fail(data.r, IoError)
    ELSE Ok(data.r, [type |-> "SQPK", cmd |-> cmd,
                     target_file |-> SqpackFile_read_from(h.f[2]),
                     block_offset |-> Shl7(U32(h.f[3])),
                     block_number |-> Shl7(U32(h.f[4])),
                     block_delete_number |-> Shl7(U32(h.f[5])),
                     block_data |-> data.bytes])

AddDataFraming_fields(d, h, cmd) ==
    IF ~h.ok THEN Fail(h.r, IoError)
    ELSE AddDataFraming_data(h, read_exact(d, h.r, Shl7(U32(h.f[4]))), cmd)

AddDataFraming_read(d, r, cmd) ==
    AddDataFraming_fields(d, ReadFields(d, r, <<3, 8, 4, 4, 4>>), cmd)

\* SqpkAddData::read
SqpkAddData_read(d, r) == AddDataFraming_read(d, r, "A")

\* SqpkExpandData::read: the same framing as add-data.
SqpkExpandData_read(d, r) == AddDataFraming_read(d, r, "E")

\* SqpkDeleteData::read
SqpkDeleteData_fields(h) ==
    IF ~h.ok THEN Fail(h.r, IoError)
    ELSE Ok(h.r, [type |-> "SQPK", cmd |-> "D",
                  target_file |-> SqpackFile_read_from(h.f[2]),
                  block_offset |-> Shl7(U32(h.f[3])),
                  block_number |-> U32(h.f[4])])

SqpkDeleteData_read(d, r) == SqpkDeleteData_fields(ReadFields(d, r, <<3, 8, 4, 4, 4>>))

\* SqpkHeader::HEADER_SIZE
HEADER_SIZE == 1024

\* SqpkHeader::read.  An unknown file kind is Dat, an unknown header kind
\* is Version.
SqpkHeader_fields(h) ==
    IF ~h.ok THEN Fail(h.r, IoError)
    ELSE Ok(h.r, [type |-> "SQPK", cmd |-> "H",
                  file_kind |-> IF h.f[1][1] = 73 THEN "Index" ELSE "Dat",
                  header_kind |-> CASE h.f[2][1] = 73 -> "Index"
                                    [] h.f[2][1] = 68 -> "Data"
                                    [] OTHER -> "Version",
                  target_file |-> SqpackFile_read_from(h.f[4]),
                  header_data |-> h.f[5]])

SqpkHeader_read(d, r) == SqpkHeader_fields(ReadFields(d, r, <<1, 1, 1, 8, HEADER_SIZE>>))

\* SqpkIndex::read.  An unknown index command is Add.
SqpkIndex_fields(h) ==
    IF ~h.ok THEN Fail(h.r, IoError)
    ELSE Ok(h.r, [type |-> "SQPK", cmd |-> "I",
                  index_command |-> IF h.f[1][1] = 68 THEN "Delete" ELSE "Add",
                  is_synonym |-> h.f[2][1] # 0,
                  target_file |-> SqpackFile_read_from(h.f[4]),
                  file_hash |-> h.f[5],
                  block_offset |-> U32(h.f[6]),
                  block_number |-> U32(h.f[7])])

SqpkIndex_read(d, r) == SqpkIndex_fields(ReadFields(d, r, <<1, 1, 1, 8, 8, 4, 4>>))

\* SqpkPatchInfo::read
SqpkPatchInfo_fields(h) ==
    IF ~h.ok THEN Fail(h.r, IoError)
    ELSE Ok(h.r, [type |-> "SQPK", cmd |-> "X",
                  status |-> h.f[1][1],
                  version |-> h.f[2][1],
                  install_size |-> h.f[4]])

SqpkPatchInfo_read(d, r) == SqpkPatchInfo_fields(ReadFields(d, r, <<1, 1, 1, 8>>))

\* The platforms (config.rs), by their numbers.
Platform == {"Win32", "Ps3", "Ps4", "Unknown"}
PlatformNumber == [Win32 |-> 0, Ps3 |-> 1, Ps4 |-> 2, Unknown |-> 3]

\* Platform::from_u16: <<platform>>, or <<>> for a value above 3.
Platform_from_u16(value) ==
    CASE value = 0 -> <<"Win32">>
      [] value = 1 -> <<"Ps3">>
      [] value = 2 -> <<"Ps4">>
      [] value = 3 -> <<"Unknown">>
      [] OTHER -> <<>>

\* SqpkTargetInfo::read.  The platform is decoded, and may be refused,
\* between the reads of the fields.
SqpkTargetInfo_fields(platform, h) ==
    IF ~h.ok THEN Fail(h.r, IoError)
    ELSE Ok(h.r, [type |-> "SQPK", cmd |-> "T",
                  platform |-> platform[1],
                  region |-> "Global",
                  is_debug |-> U16(h.f[2]) # 0,
                  version |-> U16(h.f[3]),
                  deleted_data_size |-> Reverse(h.f[4]),
                  seek_count |-> Reverse(h.f[5])])

SqpkTargetInfo_platform(d, r, value, platform) ==
    IF platform = <<>>
    THEN Fail(r, [kind |-> "InvalidPlatform", value |-> value % 256])
    ELSE SqpkTargetInfo_fields(platform, ReadFields(d, r, <<2, 2, 2, 8, 8>>))

SqpkTargetInfo_platform_field(d, p) ==
    IF ~p.ok THEN Fail(p.r, IoError)
    ELSE SqpkTargetInfo_platform(d, p.r, U16(p.f[2]), Platform_from_u16(U16(p.f[2])))

SqpkTargetInfo_read(d, r) == SqpkTargetInfo_platform_field(d, ReadFields(d, r, <<3, 2>>))

(***************************************************************************)
(* Compressed blocks (util/compressed_block.rs) and the file command.      *)
(* The i32 and u64 arithmetic is the wrapping arithmetic of a release      *)
(* build.                                                                  *)
(***************************************************************************)
MinI32 == (-2147483647) - 1

\* a + b in i32.
Add32(a, b) ==
    IF b > 0 /\ a > 2147483647 - b
    THEN ((a - 2147483647) - 1) + ((b - 2147483647) - 1)
    ELSE IF b < 0 /\ a < MinI32 - b
    THEN ((a + 2147483647) + 1) + ((b + 2147483647) + 1)
    ELSE a + b

\* a - b in i32.
Sub32(a, b) ==
    IF b > 0 /\ a < MinI32 + b
    THEN ((((a + 2147483647) + 1) - b) + 2147483647) + 1
    ELSE IF b < 0 /\ a > 2147483647 + b
    THEN ((((a - 2147483647) - 1) - b) - 2147483647) - 1
    ELSE a - b

\* `n as usize` where n is an i32 used as a length.
AsUsize(n) == IF n < 0 \/ n >= Huge THEN Huge ELSE n

\* The marker of an uncompressed block in compressed_size.
UncompressedMarker == 32000          \* 0x7d00

\* SqpkCompressedBlock::calculate_compressed_block_length
calculate_compressed_block_length(compressed_size, decompressed_size) ==
    LET size == IF compressed_size # UncompressedMarker
                THEN compressed_size ELSE decompressed_size
        sum == Add32(size, 143)
    IN  sum - (sum % 128)                    \* & 0xFFFFFF80

\* SqpkCompressedBlock::read_from, in the steps of its code.
SqpkCompressedBlock_new(r, header_size, compressed_size, decompressed_size, compressed_block) ==
    Ok(r, [header_size |-> header_size,
           compressed_size |-> compressed_size,
           decompressed_size |-> decompressed_size,
           compressed_block |-> compressed_block])

\* The padding after the data of an uncompressed block.
SqpkCompressedBlock_padding(pad, header_size, compressed_size, decompressed_size, block) ==
    IF ~pad.ok THEN Fail(pad.r, IoError)
    ELSE SqpkCompressedBlock_new(pad.r, header_size, compressed_size, decompressed_size, block)

\* The data of an uncompressed block, and its padding if there is any.
SqpkCompressedBlock_raw(d, data, header_size, compressed_size, decompressed_size, padding_size) ==
    IF ~data.ok THEN Fail(data.r, IoError)
    ELSE IF padding_size > 0
    THEN SqpkCompressedBlock_padding(read_exact(d, data.r, AsUsize(padding_size)),
             header_size, compressed_size, decompressed_size, data.bytes)
    ELSE SqpkCompressedBlock_new(data.r, header_size, compressed_size, decompressed_size,
                                 data.bytes)

\* The data of a compressed block.
SqpkCompressedBlock_deflated(data, header_size, compressed_size, decompressed_size) ==
    IF ~data.ok THEN Fail(data.r, IoError)
    ELSE SqpkCompressedBlock_new(data.r, header_size, compressed_size, decompressed_size,
                                 data.bytes)

\* rest is `compressed_block_length - header_size`.
SqpkCompressedBlock_data(d, r, header_size, compressed_size, decompressed_size, rest) ==
    IF compressed_size # UncompressedMarker
    THEN SqpkCompressedBlock_deflated(read_exact(d, r, AsUsize(rest)),
             header_size, compressed_size, decompressed_size)
    ELSE SqpkCompressedBlock_raw(d, read_exact(d, r, AsUsize(decompressed_size)),
             header_size, compressed_size, decompressed_size,
             Sub32(rest, decompressed_size))

SqpkCompressedBlock_sizes(d, r, header_size, compressed_size, decompressed_size) ==
    SqpkCompressedBlock_data(d, r, header_size, compressed_size, decompressed_size,
        Sub32(calculate_compressed_block_length(compressed_size, decompressed_size),
              header_size))

\* h: header_size, a word that is skipped, compressed_size, decompressed_size.
SqpkCompressedBlock_fields(d, h) ==
    IF ~h.ok THEN Fail(h.r, IoError)
    ELSE SqpkCompressedBlock_sizes(d, h.r, I32(Reverse(h.f[1])), I32(Reverse(h.f[3])),
                                   I32(Reverse(h.f[4])))

SqpkCompressedBlock_read_from(d, r) ==
    SqpkCompressedBlock_fields(d, ReadFields(d, r, <<4, 4, 4, 4>>))

\* `header_size as u64 + (length - header_size) as u64`, saturating at Huge.
BlockBytes(header_size, rest) ==
    IF header_size < 0 /\ rest < 0 THEN Huge
    ELSE IF header_size >= Huge \/ rest >= Huge THEN Huge
    ELSE IF header_size + rest < 0 THEN Huge
    ELSE Min(header_size + rest, Huge)

\* u64::saturating_sub
saturating_sub(a, b) == IF a > b THEN a - b ELSE 0

\* The block loop of SqpkFile::read: blocks are read while the count of
\* bytes left is positive.
RECURSIVE ReadBlocks(_, _, _, _)
\* One turn of the loop, b being the block read.
ReadBlocks_block(d, b, bytes_remaining, blocks) ==
    IF ~b.ok THEN b
    ELSE ReadBlocks(d, b.r,
             saturating_sub(bytes_remaining,
                 BlockBytes(b.val.header_size,
                            Sub32(calculate_compressed_block_length(
                                      b.val.compressed_size, b.val.decompressed_size),
                                  b.val.header_size))),
             Append(blocks, b.val))

ReadBlocks(d, r, bytes_remaining, blocks) ==
    IF bytes_remaining <= 0 THEN Ok(r, blocks)
    ELSE ReadBlocks_block(d, SqpkCompressedBlock_read_from(d, r), bytes_remaining, blocks)

\* OperationKind::from_u8, an unknown operation being AddFile.
OperationKind_from_u8(value) ==
    CASE value = 82 -> "RemoveAll"
      [] value = 68 -> "DeleteFile"
      [] value = 77 -> "MakeDirTree"
      [] OTHER -> "AddFile"

\* The fixed part of the file command before its path.
FileCommandHeaderBytes == 27         \* 1 + 2 + 8 + 8 + 4 + 2 + 2

\* SqpkFile::read, in the steps of its code.
SqpkFile_new(r, file, compressed_data) ==
    Ok(r, file @@ [compressed_data |-> compressed_data])

SqpkFile_blocks(blocks, file) ==
    IF ~blocks.ok THEN blocks ELSE SqpkFile_new(blocks.r, file, blocks.val)

\* The blocks are read for AddFile only; file holds the fields read so far.
SqpkFile_operation(d, r, operation, bytes_remaining, file) ==
    IF operation = "AddFile"
    THEN SqpkFile_blocks(ReadBlocks(d, r, bytes_remaining, <<>>), file)
    ELSE SqpkFile_new(r, file, <<>>)

SqpkFile_path(d, h, path, operation, bytes_remaining) ==
    IF ~path.ok THEN Fail(path.r, IoError)
    ELSE SqpkFile_operation(d, path.r, operation, bytes_remaining,
             [type |-> "SQPK", cmd |-> "F",
              operation |-> operation,
              file_offset |-> I64(h.f[3]),
              file_size |-> I64(h.f[4]),
              expansion_id |-> U16(h.f[6]),
              target_file |-> fixed_string(path.bytes)])

SqpkFile_path_len(d, h, path_len, remaining_size) ==
    SqpkFile_path(d, h, read_exact(d, h.r, path_len),
                  OperationKind_from_u8(h.f[1][1]),
                  saturating_sub(remaining_size, FileCommandHeaderBytes + path_len))

SqpkFile_fields(d, h, remaining_size) ==
    IF ~h.ok THEN Fail(h.r, IoError)
    ELSE SqpkFile_path_len(d, h, U32(h.f[5]), remaining_size)

SqpkFile_read(d, r, remaining_size) ==
    SqpkFile_fields(d, ReadFields(d, r, <<1, 2, 8, 8, 4, 2, 2>>), remaining_size)

\* A size check that lets every inner size pass.
SizeMismatch_never(inner_size, outer_size) == FALSE

\* A size check that refuses an inner size that is too small only.
SizeMismatch_smaller(inner_size, outer_size) == inner_size < AsI32(outer_size)

\* The test `inner_size != outer_size as i32` of SqpkCommand::read.
SizeMismatch(inner_size, outer_size) == inner_size # AsI32(outer_size)

\* An unknown command reported four bytes further, at the tag.
UnknownSqpkCommand_at_tag(command_char, offset) ==
    [kind |-> "UnknownSqpkCommand", command |-> command_char, offset |-> offset + 4]

\* ZiPatchError::UnknownSqpkCommand as SqpkCommand::read builds it.
UnknownSqpkCommand(command_char, offset) ==
    [kind |-> "UnknownSqpkCommand", command |-> command_char, offset |-> offset]

\* SqpkCommand::read, in the steps of its code.  outer_size is the size
\* word of the chunk (four bytes); offset is the position of that word.
SqpkCommand_dispatch(d, r, command_char, remaining_size, offset) ==
    CASE command_char = 65 -> SqpkAddData_read(d, r)
      [] command_char = 68 -> SqpkDeleteData_read(d, r)
      [] command_char = 69 -> SqpkExpandData_read(d, r)
      [] command_char = 70 -> SqpkFile_read(d, r, remaining_size)
      [] command_char = 72 -> SqpkHeader_read(d, r)
      [] command_char = 73 -> SqpkIndex_read(d, r)
      [] command_char = 88 -> SqpkPatchInfo_read(d, r)
      [] command_char = 84 -> SqpkTargetInfo_read(d, r)
      [] OTHER -> Fail(r, UnknownSqpkCommand(command_char, offset))

SqpkCommand_command(d, command, outer_size, offset) ==
    IF ~command.ok THEN Fail(command.r, IoError)
    ELSE SqpkCommand_dispatch(d, command.r, command.bytes[1],
                              saturating_sub(U32(outer_size), 5), offset)

SqpkCommand_inner_size(d, inner, outer_size, offset) ==
    IF ~inner.ok THEN Fail(inner.r, IoError)
    ELSE IF SizeMismatch(I32(inner.bytes), outer_size)
    THEN Fail(inner.r, [kind |-> "SqpkSizeMismatch",
                        outer |-> outer_size, inner |-> I32(inner.bytes)])
    ELSE SqpkCommand_command(d, read_exact(d, inner.r, 1), outer_size, offset)

SqpkCommand_read(d, r, outer_size, offset) ==
    SqpkCommand_inner_size(d, read_exact(d, r, 4), outer_size, offset)

(***************************************************************************)
(* The chunk codec (chunk/mod.rs).                                         *)
(***************************************************************************)
\* ZiPatchError::UnknownChunkType as ZiPatchChunk::read builds it.
UnknownChunkType(chunk_type, offset) ==
    [kind |-> "UnknownChunkType", chunk_type |-> chunk_type, offset |-> offset]

\* The decoder ZiPatchChunk::read selects for a tag; an unknown tag is
\* refused with the tag and the offset of the chunk.
DecodeBody(d, r, chunk_type, size, offset) ==
    CASE chunk_type = TAG_FHDR -> FileHeaderChunk_read(d, r)
      [] chunk_type = TAG_APLY -> ApplyOptionChunk_read(d, r)
      [] chunk_type = TAG_APFS -> ApplyFreeSpaceChunk_read(d, r)
      [] chunk_type = TAG_ADIR -> AddDirectoryChunk_read(d, r)
      [] chunk_type = TAG_DELD -> DeleteDirectoryChunk_read(d, r)
      [] chunk_type = TAG_SQPK -> SqpkCommand_read(d, r, size, offset)
      [] chunk_type = TAG_EOF -> EndOfFileChunk_read(d, r)
      [] chunk_type = TAG_XXXX -> XXXXChunk_read(d, r)
      [] OTHER -> Fail(r, UnknownChunkType(chunk_type, offset))

\* A checksum error reported four bytes further, at the tag.
ChecksumMismatch_at_tag(offset, expected_checksum, calculated_checksum) ==
    [kind |-> "ChecksumMismatch", offset |-> offset + 4,
     expected |-> expected_checksum, actual |-> calculated_checksum]

\* A checksum error with the two values the other way round.
ChecksumMismatch_swapped(offset, expected_checksum, calculated_checksum) ==
    [kind |-> "ChecksumMismatch", offset |-> offset,
     expected |-> calculated_checksum, actual |-> expected_checksum]

\* ZiPatchError::ChecksumMismatch as ZiPatchChunk::read builds it from the
\* word it read after the body and the value it calculated.
ChecksumMismatch(offset, expected_checksum, calculated_checksum) ==
    [kind |-> "ChecksumMismatch", offset |-> offset,
     expected |-> expected_checksum, actual |-> calculated_checksum]

\* A call of ZiPatchChunk::read that ended before the comparison.
Early(offset, size, chunk_type, r, err) ==
    [ok |-> FALSE, val |-> err, r |-> r, offset |-> offset, size |-> size,
     chunk_type |-> chunk_type, compared |-> FALSE,
     calculated |-> <<>>, trailing |-> <<>>]

\* ZiPatchChunk::read with the reader r on stream d, in the steps of its
\* code.  The result carries, beside the chunk or the error and the reader
\* after the call, what the call saw: the offset, the size word, the tag,
\* whether the checksums were compared, and the two values compared.
\* The comparison of the calculated checksum with the word read after the
\* body.
ZiPatchChunk_compare(offset, size, chunk_type, chunk, calculated_checksum, expected_checksum) ==
    IF ~expected_checksum.ok
    THEN Early(offset, size, chunk_type, expected_checksum.r, IoError)
    ELSE [ok |-> calculated_checksum = expected_checksum.bytes,
          val |-> IF calculated_checksum # expected_checksum.bytes
                  THEN ChecksumMismatch(offset, expected_checksum.bytes,
                                        calculated_checksum)
                  ELSE chunk,
          r |-> expected_checksum.r,
          offset |-> offset, size |-> size,
          chunk_type |-> chunk_type, compared |-> TRUE,
          calculated |-> calculated_checksum,
          trailing |-> expected_checksum.bytes]

\* after is the reader when the guard has been dropped: an error of the
\* decoder is returned, else the checksum is taken and the word read.
ZiPatchChunk_checksum(d, offset, size, chunk_type, dec, after) ==
    IF ~dec.ok THEN Early(offset, size, chunk_type, after, dec.val)
    ELSE ZiPatchChunk_compare(offset, size, chunk_type, dec.val,
                              get_crc32(after), read_exact(d, after, 4))

\* The end of the guard's scope, dec being the result of the decoder.
ZiPatchChunk_guarded(d, offset, size, chunk_type, guard, dec) ==
    ZiPatchChunk_checksum(d, offset, size, chunk_type, dec,
                          AdvanceGuard_drop(d, dec.r, guard))

\* The guard is made with the reader after the tag, then the body decoded.
ZiPatchChunk_body(d, r, offset, size, chunk_type) ==
    ZiPatchChunk_guarded(d, offset, size, chunk_type,
                         AdvanceGuard_new(r, U32(size)),
                         DecodeBody(d, r, chunk_type, size, offset))

ZiPatchChunk_tag(d, offset, size, tag) ==
    IF ~tag.ok THEN Early(offset, size, <<>>, tag.r, IoError)
    ELSE ZiPatchChunk_body(d, tag.r, offset, size, fixed_string(tag.bytes))

\* sz is the read of the size word; the hasher starts anew before the tag.
ZiPatchChunk_size(d, offset, sz) ==
    IF ~sz.ok THEN Early(offset, <<>>, <<>>, sz.r, IoError)
    ELSE ZiPatchChunk_tag(d, offset, sz.bytes, read_exact(d, init_crc32(sz.r), 4))

ZiPatchChunk_read(d, r) == ZiPatchChunk_size(d, r.pos, read_exact(d, r, 4))

(***************************************************************************)
(* Names of pack files (util/sqpack_file.rs, util/sqex_file.rs).  A string *)
(* is the sequence of its character codes.                                 *)
(***************************************************************************)
\* The digits of n in the given base, most significant first, at least
\* `width` of them (Rust's {}, {:02x} and {:04x}; hexadecimal in lower case).
RECURSIVE Digits(_, _, _)
Digits(n, base, width) ==
    LET v == n % base
        c == IF v < 10 THEN 48 + v ELSE 87 + v
    IN  IF n < base /\ width <= 1 THEN <<c>>
        ELSE Append(Digits(n \div base, base, width - 1), c)

\* SqexFile::get_expansion_folder
get_expansion_folder(expansion_id) ==
    IF expansion_id = 0 THEN <<102, 102, 120, 105, 118>>                   \* "ffxiv"
    ELSE <<101, 120>> \o Digits(expansion_id, 10, 1)               \* "ex{}"

\* SqpackFile::expansion_id: (sub_id >> 8) as u8
SqpackFile_expansion_id(f) == (f.sub_id \div 256) % 256

\* SqpackFile::get_expansion_path: "/sqpack/{}/"
get_expansion_path(expansion_id) ==
    <<47, 115, 113, 112, 97, 99, 107, 47>> \o get_expansion_folder(expansion_id) \o <<47>>

\* The platform's part of a pack file name.
PlatformStr == [Win32 |-> <<119, 105, 110, 51, 50>>,                \* "win32"
                Ps3 |-> <<112, 115, 51>>,                              \* "ps3"
                Ps4 |-> <<112, 115, 52>>,                              \* "ps4"
                Unknown |-> <<117, 110, 107, 110, 111, 119, 110>>]     \* "unknown"

\* A base file name without the leading zeros.
get_base_filename_short(f, platform) ==
    Digits(f.main_id, 16, 1) \o Digits(f.sub_id, 16, 1) \o <<46>> \o PlatformStr[platform]

\* SqpackFile::get_base_filename: "{:02x}{:04x}.{}"
get_base_filename(f, platform) ==
    Digits(f.main_id, 16, 2) \o Digits(f.sub_id, 16, 4) \o <<46>> \o PlatformStr[platform]

\* SqpackDatFile::get_file_name: "{}{}.dat{}"
SqpackDatFile_get_file_name(f, platform) ==
    get_expansion_path(SqpackFile_expansion_id(f)) \o get_base_filename(f, platform)
        \o <<46, 100, 97, 116>> \o Digits(f.file_id, 10, 1)

\* SqpackIndexFile::get_file_name: "{}{}.index{}", the suffix empty for
\* file 0.
SqpackIndexFile_get_file_name(f, platform) ==
    get_expansion_path(SqpackFile_expansion_id(f)) \o get_base_filename(f, platform)
        \o <<46, 105, 110, 100, 101, 120>>
        \o (IF f.file_id = 0 THEN <<>> ELSE Digits(f.file_id, 10, 1))

(***************************************************************************)
(* The patch driver (file.rs).                                             *)
(***************************************************************************)
\* ZIPATCH_MAGIC: the three words, each as four bytes, most significant
\* first.
ZIPATCH_MAGIC == <<<<80, 73, 90, 145>>,      \* 0x50495A91
                   <<72, 67, 84, 65>>,       \* 0x48435441
                   <<10, 26, 10, 13>>>>      \* 0x0A1A0A0D

\* A comparison of the first two words only.
MagicMatches_two_words(magic) ==
    magic[1] = ZIPATCH_MAGIC[1] /\ magic[2] = ZIPATCH_MAGIC[2]

\* The comparison of the three words read with the magic.
MagicMatches(magic) == magic = ZIPATCH_MAGIC

\* The tallies of calculate_actual_counts before the first chunk.
NoCounts == with_counts(0, 0, 0, 0, 0, 0, 0, 0)

\* One chunk that is not EOF_ in the loop of calculate_actual_counts.
CountChunk(c, chunk) ==
    LET t == [c EXCEPT !.total_commands = @ + 1]
    IN  CASE chunk.type = "ADIR" -> [t EXCEPT !.add_directories = @ + 1]
          [] chunk.type = "DELD" -> [t EXCEPT !.delete_directories = @ + 1]
          [] chunk.type = "SQPK" /\ chunk.cmd = "H" -> [t EXCEPT !.sqpk_header_commands = @ + 1]
          [] chunk.type = "SQPK" /\ chunk.cmd = "F" -> [t EXCEPT !.sqpk_file_commands = @ + 1]
          [] chunk.type = "SQPK" /\ chunk.cmd = "A" -> [t EXCEPT !.sqpk_add_commands = @ + 1]
          [] chunk.type = "SQPK" /\ chunk.cmd = "D" -> [t EXCEPT !.sqpk_delete_commands = @ + 1]
          [] chunk.type = "SQPK" /\ chunk.cmd = "E" -> [t EXCEPT !.sqpk_expand_commands = @ + 1]
          [] OTHER -> t

\* The three sets of calculate_changed_files before the first chunk.
NoChanges == [added |-> {}, deleted |-> {}, modified |-> {}]

\* A pass that classifies the directory chunks only.
ChangeChunk_dirs(s, chunk, platform) ==
    CASE chunk.type = "ADIR" -> [s EXCEPT !.added = @ \cup {chunk.dir_name}]
      [] chunk.type = "DELD" -> [s EXCEPT !.deleted = @ \cup {chunk.dir_name}]
      [] OTHER -> s

\* One chunk that is not EOF_ in the loop of calculate_changed_files.
ChangeChunk(s, chunk, platform) ==
    CASE chunk.type = "ADIR" -> [s EXCEPT !.added = @ \cup {chunk.dir_name}]
      [] chunk.type = "DELD" -> [s EXCEPT !.deleted = @ \cup {chunk.dir_name}]
      [] chunk.type = "SQPK" /\ chunk.cmd = "H" ->
            [s EXCEPT !.modified = @ \cup
                {IF chunk.file_kind = "Index"
                 THEN SqpackIndexFile_get_file_name(chunk.target_file, platform)
                 ELSE SqpackDatFile_get_file_name(chunk.target_file, platform)}]
      [] chunk.type = "SQPK" /\ chunk.cmd = "F" ->
           (CASE chunk.operation = "AddFile" ->
                    IF chunk.file_offset = 0
                    THEN [s EXCEPT !.added = @ \cup {chunk.target_file}]
                    ELSE [s EXCEPT !.modified = @ \cup {chunk.target_file}]
              [] chunk.operation = "DeleteFile" ->
                    [s EXCEPT !.deleted = @ \cup {chunk.target_file}]
              [] chunk.operation = "RemoveAll" ->
                    LET expansion == get_expansion_folder(chunk.expansion_id % 256)
                    IN  [s EXCEPT !.deleted = @ \cup
                            {<<115, 113, 112, 97, 99, 107, 47>> \o expansion \o <<47>>,      \* "sqpack/{}/"
                             <<109, 111, 118, 105, 101, 47>> \o expansion \o <<47>>}]            \* "movie/{}/"
              [] chunk.operation = "MakeDirTree" ->
                    [s EXCEPT !.added = @ \cup {chunk.target_file}])
      [] chunk.type = "SQPK" /\ chunk.cmd \in {"A", "D", "E"} ->
            [s EXCEPT !.modified = @ \cup
                {SqpackDatFile_get_file_name(chunk.target_file, platform)}]
      [] OTHER -> s

\* A pass that emits `added` as it stands.
RetainAdded_all(added, modified) == added

\* added.retain(|item| !modified.contains(item))
RetainAdded(added, modified) == {item \in added : item \notin modified}

\* Errors of the driver.
InvalidMagic(magic) == [kind |-> "InvalidMagic", magic |-> magic]
HeaderNotFound == [kind |-> "Custom", message |-> "Could not find FHDR chunk"]

(***************************************************************************)
(* The installation: paths, the file system, file streams, the retry loop  *)
(* and the store of open streams.                                          *)
(***************************************************************************)
Max(a, b) == IF a > b THEN a ELSE b

\* Paths are strings.  A path with a root is absolute; a relative path is
\* looked up from the working directory, which is "/".
has_root(path) == path # <<>> /\ path[1] = 47
absolute(path) == IF has_root(path) THEN path ELSE <<47>> \o path

\* SqexFile::resolve_full_path: Path::join, which gives the argument alone
\* when the argument has a root.
resolve_full_path(base, relative_path) ==
    IF has_root(relative_path) \/ base = <<>> THEN relative_path
    ELSE IF base[Len(base)] = 47 THEN base \o relative_path
    ELSE base \o <<47>> \o relative_path

\* Path::parent of an absolute path, and the path with the directories
\* above it.
last_separator(path) == CHOOSE k \in 1..Len(path) :
                            path[k] = 47 /\ \A i \in (k + 1)..Len(path) : path[i] # 47
parent_at(path, k) == IF k = 1 THEN <<47>> ELSE SubSeq(path, 1, k - 1)
parent(path) == parent_at(path, last_separator(path))
path_and_ancestors(path) ==
    {SubSeq(path, 1, k - 1) : k \in {i \in 2..Len(path) : path[i] = 47}} \cup {path}

\* A file system is [dirs, names, files]: the directories, the number of
\* the file each file name stands for, and the bytes of each file.  A file
\* whose name is removed keeps its bytes for the streams opened on it.
IoErrorOf(error) == [kind |-> "Io", error |-> error]
is_file(fs_, path) == absolute(path) \in DOMAIN fs_.names
is_dir(fs_, path) == absolute(path) \in fs_.dirs
exists(fs_, path) == is_file(fs_, path) \/ is_dir(fs_, path)
content(fs_, path) == fs_.files[fs_.names[absolute(path)]]

\* fs::create_dir_all
create_dir_all_at(fs_, need) ==
    IF need \cap DOMAIN fs_.names # {} THEN [ok |-> FALSE, err |-> IoErrorOf("AlreadyExists")]
    ELSE [ok |-> TRUE, fs |-> [fs_ EXCEPT !.dirs = @ \cup need]]
create_dir_all(fs_, path) == create_dir_all_at(fs_, path_and_ancestors(absolute(path)))

\* fs::remove_file, fs::remove_dir
remove_file(fs_, path) ==
    IF absolute(path) \in fs_.held
    THEN [ok |-> FALSE, err |-> IoErrorOf("PermissionDenied")]
    ELSE [ok |-> TRUE,
          fs |-> [fs_ EXCEPT !.names = [p \in DOMAIN @ \ {absolute(path)} |-> @[p]]]]
remove_dir(fs_, path) ==
    IF \E p \in DOMAIN fs_.names \cup fs_.dirs : p # absolute(path) /\ parent(p) = absolute(path)
    THEN [ok |-> FALSE, err |-> IoErrorOf("DirectoryNotEmpty")]
    ELSE [ok |-> TRUE, fs |-> [fs_ EXCEPT !.dirs = @ \ {absolute(path)}]]

\* SqexFileStream::new: an open for reading, or for reading and writing
\* that creates the file when it is not there.  The stream opened is
\* [fs, file, pos]: the file system, the file, the position in it.
Opened(fs_, file) == [ok |-> TRUE, st |-> [fs |-> fs_, file |-> file, pos |-> 0]]
SqexFileStream_new_at(fs_, path, write) ==
    CASE path \in DOMAIN fs_.names -> Opened(fs_, fs_.names[path])
      [] path \notin DOMAIN fs_.names /\ write /\ path \in fs_.dirs ->
            [ok |-> FALSE, err |-> IoErrorOf("IsADirectory")]
      [] path \notin DOMAIN fs_.names /\ write /\ path \notin fs_.dirs
                                      /\ parent(path) \in fs_.dirs ->
            Opened([fs_ EXCEPT !.names = (path :> (Len(fs_.files) + 1)) @@ @,
                               !.files = Append(@, <<>>)],
                   Len(fs_.files) + 1)
      [] OTHER -> [ok |-> FALSE, err |-> IoErrorOf("NotFound")]
SqexFileStream_new(fs_, path, write) == SqexFileStream_new_at(fs_, absolute(path), write)

\* A turn that gives up at the first error, whatever the error is.
wait_for_stream_once(opened, path, tries, remaining_tries) ==
    [done |-> TRUE, sleep |-> FALSE, remaining_tries |-> remaining_tries,
     result |-> IF opened.ok THEN opened
                ELSE [ok |-> FALSE, err |-> [kind |-> "FileStreamRetryExhausted",
                                             path |-> path, tries |-> tries]]]

\* One turn of the loop of SqexFileStream::wait_for_stream, on the result of
\* SqexFileStream::new: [done, sleep, remaining_tries, result].
FileStreamRetryExhausted(path, tries) ==
    [kind |-> "FileStreamRetryExhausted", path |-> path, tries |-> tries]
wait_for_stream_turn(opened, path, tries, remaining_tries) ==
    IF opened.ok
    THEN [done |-> TRUE, sleep |-> FALSE, remaining_tries |-> remaining_tries, result |-> opened]
    ELSE IF opened.err.kind = "Io" /\ remaining_tries > 1
    THEN IF opened.err.error \in {"PermissionDenied", "WouldBlock"}
         THEN [done |-> FALSE, sleep |-> TRUE, remaining_tries |-> remaining_tries - 1,
               result |-> opened]
         ELSE [done |-> TRUE, sleep |-> FALSE, remaining_tries |-> remaining_tries,
               result |-> opened]
    ELSE IF remaining_tries <= 1
    THEN [done |-> TRUE, sleep |-> FALSE, remaining_tries |-> remaining_tries,
          result |-> [ok |-> FALSE, err |-> FileStreamRetryExhausted(path, tries)]]
    ELSE [done |-> TRUE, sleep |-> FALSE, remaining_tries |-> remaining_tries,
          result |-> opened]

\* SqexFileStream::wait_for_stream on a file system that stays as it is
\* while the loop runs.
RECURSIVE wait_for_stream_loop(_, _, _, _, _)
wait_for_stream_next(fs_, path, write, tries, turn) ==
    IF turn.done THEN turn.result
    ELSE wait_for_stream_loop(fs_, path, write, tries, turn.remaining_tries)
wait_for_stream_loop(fs_, path, write, tries, remaining_tries) ==
    wait_for_stream_next(fs_, path, write, tries,
        wait_for_stream_turn(SqexFileStream_new(fs_, path, write), path, tries, remaining_tries))
wait_for_stream(fs_, path, write, tries) == wait_for_stream_loop(fs_, path, write, tries, tries)

\* Writes through a stream: Write::write_all at the position, a write past
\* the end filling the gap with zeros; Seek; File::set_len.
overwrite(bytes, pos, d) ==
    IF d = <<>> THEN bytes
    ELSE [i \in 1..Max(Len(bytes), pos + Len(d)) |->
             IF i > pos /\ i <= pos + Len(d) THEN d[i - pos]
             ELSE IF i <= Len(bytes) THEN bytes[i] ELSE 0]
write_all(st, d) ==
    [st EXCEPT !.fs.files[st.file] = overwrite(@, st.pos, d), !.pos = @ + Len(d)]
seek_to(st, offset) == [st EXCEPT !.pos = offset]
set_len(st, size) ==
    [st EXCEPT !.fs.files[st.file] = [i \in 1..size |-> IF i <= Len(@) THEN @[i] ELSE 0]]

\* A write that does not seek.
write_at_position(st, d, offset) == write_all(st, d)
\* A write that goes to the end of the file.
write_at_end(st, d, offset) == write_all(seek_to(st, Len(st.fs.files[st.file])), d)

\* SqexFileStream::write_from_offset, wipe, wipe_from_offset.  wipe writes
\* its zeros a buffer at a time.
write_from_offset(st, d, offset) == write_all(seek_to(st, offset), d)
wipe(st, length) == write_all(st, [i \in 1..length |-> 0])
wipe_from_offset(st, length, offset) == wipe(seek_to(st, offset), length)

\* SqexFileStreamStore: the streams by path, each [file, pos].
SqexFileStreamStore_new == <<>>

\* Path::canonicalize().unwrap_or_else(|_| path.to_path_buf()): the
\* absolute path of what exists, the path as given of what does not.
normalized_path(fs_, path) == IF exists(fs_, path) THEN absolute(path) ELSE path

\* SqexFileStreamStore::get_stream: [ok, store, fs, key], or [ok, err].
get_stream_insert(store, key, w) ==
    IF ~w.ok THEN w
    ELSE [ok |-> TRUE, fs |-> w.st.fs, key |-> key,
          store |-> (key :> [file |-> w.st.file, pos |-> w.st.pos]) @@ store]
get_stream_at(store, fs_, key, write, tries) ==
    IF key \in DOMAIN store
    THEN [ok |-> TRUE, fs |-> fs_, key |-> key, store |-> store]
    ELSE get_stream_insert(store, key, wait_for_stream(fs_, key, write, tries))
get_stream(store, fs_, path, write, tries) ==
    get_stream_at(store, fs_, normalized_path(fs_, path), write, tries)

\* SqexFile::open_stream and open_stream_with_store, as the commands call
\* them: through the store of the configuration when there is one.  The
\* result is [ok, st, key, config], the key that of the store's stream.
open_direct(config_, w) ==
    IF ~w.ok THEN w ELSE [ok |-> TRUE, st |-> w.st, key |-> <<>>, config |-> config_]
open_stored(config_, g) ==
    IF ~g.ok THEN g
    ELSE [ok |-> TRUE, key |-> <<g.key>>,
          st |-> [fs |-> g.fs, file |-> g.store[g.key].file, pos |-> g.store[g.key].pos],
          config |-> [config_ EXCEPT !.store = <<g.store>>]]
open_stream(config_, fs_, full_path) ==
    IF config_.store = <<>>
    THEN open_direct(config_, wait_for_stream(fs_, full_path, TRUE, 5))
    ELSE open_stored(config_, get_stream(config_.store[1], fs_, full_path, TRUE, 5))


(***************************************************************************)
(* Applying a chunk to a configuration and the file system behind it.  An  *)
(* apply gives [ok, config, fs] and, when it fails, the error.             *)
(***************************************************************************)
Applied(config_, fs_) == [ok |-> TRUE, config |-> config_, fs |-> fs_]
NotApplied(err, config_, fs_) == [ok |-> FALSE, err |-> err, config |-> config_, fs |-> fs_]

\* The end of a command that wrote through the stream it opened: the
\* store's stream keeps its position, a stream opened directly is dropped.
closed(o, st) ==
    IF o.key = <<>> THEN o.config ELSE [o.config EXCEPT !.store[1][o.key[1]].pos = st.pos]
written(o, st) == Applied(closed(o, st), st.fs)

\* AddDirectoryChunk::apply
AddDirectoryChunk_created(config_, fs_, full_path, made) ==
    IF made.ok THEN Applied(config_, made.fs)
    ELSE NotApplied([kind |-> "DirectoryCreationFailed", path |-> full_path], config_, fs_)
AddDirectoryChunk_at(config_, fs_, full_path) ==
    AddDirectoryChunk_created(config_, fs_, full_path, create_dir_all(fs_, full_path))
AddDirectoryChunk_apply(chunk, config_, fs_) ==
    AddDirectoryChunk_at(config_, fs_, resolve_full_path(config_.game_path, chunk.dir_name))

\* DeleteDirectoryChunk::apply
DeleteDirectoryChunk_removed(config_, fs_, full_path, removed) ==
    IF removed.ok THEN Applied(config_, removed.fs)
    ELSE NotApplied([kind |-> "FileOperationFailed", path |-> full_path], config_, fs_)
DeleteDirectoryChunk_at(config_, fs_, full_path) ==
    IF is_dir(fs_, full_path)
    THEN DeleteDirectoryChunk_removed(config_, fs_, full_path, remove_dir(fs_, full_path))
    ELSE Applied(config_, fs_)
DeleteDirectoryChunk_apply(chunk, config_, fs_) ==
    DeleteDirectoryChunk_at(config_, fs_, resolve_full_path(config_.game_path, chunk.dir_name))

\* An option chunk that sets both options, whichever it names.
ApplyOptionChunk_both(chunk, config_, fs_) ==
    Applied([config_ EXCEPT !.ignore_missing = chunk.option_value,
                            !.ignore_old_mismatch = chunk.option_value], fs_)

\* ApplyOptionChunk::apply
ApplyOptionChunk_apply(chunk, config_, fs_) ==
    Applied(CASE chunk.option_kind = "IgnoreMissing" ->
                     [config_ EXCEPT !.ignore_missing = chunk.option_value]
              [] chunk.option_kind = "IgnoreOldMismatch" ->
                     [config_ EXCEPT !.ignore_old_mismatch = chunk.option_value]
              [] OTHER -> config_,
            fs_)

\* A target-info command that leaves the platform as it is.
SqpkTargetInfo_keep(chunk, config_, fs_) == Applied(config_, fs_)

\* SqpkTargetInfo::apply
SqpkTargetInfo_apply(chunk, config_, fs_) ==
    Applied([config_ EXCEPT !.platform = chunk.platform], fs_)

\* SqpackDatFile::resolve_path and SqpackIndexFile::resolve_path, followed
\* by SqexFile::resolve_full_path: the path a pack file command opens.
SqpackDatFile_full_path(f, config_) ==
    resolve_full_path(config_.game_path, SqpackDatFile_get_file_name(f, config_.platform))
SqpackIndexFile_full_path(f, config_) ==
    resolve_full_path(config_.game_path, SqpackIndexFile_get_file_name(f, config_.platform))

\* SqpkHeader::apply
SqpkHeader_full_path(chunk, config_) ==
    IF chunk.file_kind = "Dat" THEN SqpackDatFile_full_path(chunk.target_file, config_)
    ELSE SqpackIndexFile_full_path(chunk.target_file, config_)
SqpkHeader_write(chunk, config_, fs_, o) ==
    IF ~o.ok THEN NotApplied(o.err, config_, fs_)
    ELSE written(o, write_from_offset(o.st, chunk.header_data,
                                      IF chunk.header_kind = "Version" THEN 0 ELSE HEADER_SIZE))
SqpkHeader_apply(chunk, config_, fs_) ==
    SqpkHeader_write(chunk, config_, fs_,
                     open_stream(config_, fs_, SqpkHeader_full_path(chunk, config_)))

\* SqpkAddData::apply
SqpkAddData_write(chunk, config_, fs_, o) ==
    IF ~o.ok THEN NotApplied(o.err, config_, fs_)
    ELSE written(o, wipe(write_from_offset(o.st, chunk.block_data, chunk.block_offset),
                         chunk.block_delete_number))
SqpkAddData_apply(chunk, config_, fs_) ==
    SqpkAddData_write(chunk, config_, fs_,
                      open_stream(config_, fs_, SqpackDatFile_full_path(chunk.target_file, config_)))

\* SqpkExpandData::apply: the apply of add-data.
SqpkExpandData_apply(chunk, config_, fs_) == SqpkAddData_apply(chunk, config_, fs_)

\* SqpackDatFile::write_empty_file_block_at: the five i32 of the block
\* header, little-endian, over the start of the wiped range.
LE32_low(m, top) == <<m % 256, (m \div 256) % 256, (m \div 65536) % 256, m \div 16777216 + top>>
LE32(n) == IF n < 0 THEN LE32_low((n + 2147483647) + 1, 128) ELSE LE32_low(n, 0)
write_empty_file_block_at(st, offset, block_number) ==
    write_all(seek_to(wipe_from_offset(st, Shl7(block_number), offset), offset),
              LE32(128) \o LE32(0) \o LE32(0) \o LE32(block_number - 1) \o LE32(0))

\* SqpkDeleteData::apply
SqpkDeleteData_write(chunk, config_, fs_, o) ==
    IF ~o.ok THEN NotApplied(o.err, config_, fs_)
    ELSE written(o, write_empty_file_block_at(o.st, chunk.block_offset, chunk.block_number))
SqpkDeleteData_apply(chunk, config_, fs_) ==
    SqpkDeleteData_write(chunk, config_, fs_,
                         open_stream(config_, fs_, SqpackDatFile_full_path(chunk.target_file, config_)))

\* DeflateDecoder over the bytes of a block, for streams of stored blocks:
\* each a header byte (bit 0 set in the last, bits 1 and 2 the block type,
\* 0 for stored), LEN and its complement NLEN, little-endian, and LEN
\* bytes.  Block type 3 is an error, as is a block that is cut short.
RECURSIVE inflate_blocks(_, _, _)
inflate_stored(b, i, out, len) ==
    IF b[i + 3] + 256 * b[i + 4] # 65535 - len \/ i + 4 + len > Len(b)
    THEN [ok |-> FALSE]
    ELSE IF b[i] % 2 = 1
    THEN [ok |-> TRUE, bytes |-> out \o SubSeq(b, i + 5, i + 4 + len)]
    ELSE inflate_blocks(b, i + 5 + len, out \o SubSeq(b, i + 5, i + 4 + len))
inflate_blocks(b, i, out) ==
    CASE i + 4 > Len(b) -> [ok |-> FALSE]
      [] i + 4 <= Len(b) /\ (b[i] \div 2) % 4 = 0 ->
            inflate_stored(b, i, out, b[i + 1] + 256 * b[i + 2])
      [] i + 4 <= Len(b) /\ (b[i] \div 2) % 4 = 3 -> [ok |-> FALSE]
inflate(b) == inflate_blocks(b, 1, <<>>)

\* SqpkCompressedBlock::decompress_into: [ok, st].  A stream that does not
\* inflate has written nothing when the error is returned.
decompress_inflated(st, out) ==
    IF out.ok THEN [ok |-> TRUE, st |-> write_all(st, out.bytes)]
    ELSE [ok |-> FALSE, st |-> st, err |-> [kind |-> "DecompressionFailed"]]
decompress_into(block, st) ==
    IF block.compressed_size # UncompressedMarker
    THEN decompress_inflated(st, inflate(block.compressed_block))
    ELSE [ok |-> TRUE, st |-> write_all(st, block.compressed_block)]

\* The loop over the blocks of SqpkFile::apply, from block k on.
RECURSIVE decompress_all(_, _, _)
decompress_next(blocks, k, res) ==
    IF ~res.ok THEN res ELSE decompress_all(blocks, k + 1, res.st)
decompress_all(blocks, k, st) ==
    IF k > Len(blocks) THEN [ok |-> TRUE, st |-> st]
    ELSE decompress_next(blocks, k, decompress_into(blocks[k], st))

\* SqpkFile::apply, AddFile: the directories, the open, the truncation at
\* offset 0, the seek, the blocks.
AddFile_blocks(o, res) ==
    IF res.ok THEN written(o, res.st)
    ELSE NotApplied(res.err, closed(o, res.st), res.st.fs)
AddFile_write(chunk, config_, fs_, o) ==
    IF ~o.ok THEN NotApplied(o.err, config_, fs_)
    ELSE AddFile_blocks(o, decompress_all(chunk.compressed_data, 1,
                               seek_to(IF chunk.file_offset = 0 THEN set_len(o.st, 0) ELSE o.st,
                                       chunk.file_offset)))
AddFile_open(chunk, config_, fs_, full_path, made) ==
    IF ~made.ok
    THEN NotApplied([kind |-> "DirectoryCreationFailed", path |-> parent(absolute(full_path))],
                    config_, fs_)
    ELSE AddFile_write(chunk, config_, made.fs, open_stream(config_, made.fs, full_path))
AddFile_apply(chunk, config_, fs_, full_path) ==
    AddFile_open(chunk, config_, fs_, full_path,
                 create_dir_all(fs_, parent(absolute(full_path))))

\* A filter that keeps the .var files only.
remove_all_filter_var(file_path) ==
    ~(Len(file_path) >= 4
      /\ SubSeq(file_path, Len(file_path) - 3, Len(file_path)) = <<46, 118, 97, 114>>)

\* SqpkFile::remove_all_filter: str::ends_with
ends_with(s, suffix) ==
    Len(s) >= Len(suffix) /\ SubSeq(s, Len(s) - Len(suffix) + 1, Len(s)) = suffix
remove_all_filter(file_path) ==
    ~\E ext \in {<<46, 118, 97, 114>>,                                 \* ".var"
                 <<48, 48, 48, 48, 48, 46, 98, 107, 50>>,             \* "00000.bk2"
                 <<48, 48, 48, 48, 49, 46, 98, 107, 50>>,             \* "00001.bk2"
                 <<48, 48, 48, 48, 50, 46, 98, 107, 50>>,             \* "00002.bk2"
                 <<48, 48, 48, 48, 51, 46, 98, 107, 50>>} :           \* "00003.bk2"
        ends_with(file_path, ext)

\* SqexFile::get_all_expansion_files: the files of sqpack/{exp} and of
\* movie/{exp} under the installation.
get_all_expansion_files(fs_, full_path, expansion_id) ==
    {p \in DOMAIN fs_.names :
        parent(p) \in {absolute(resolve_full_path(resolve_full_path(full_path, dir),
                                                  get_expansion_folder(expansion_id % 256)))
                       : dir \in {<<115, 113, 112, 97, 99, 107>>,        \* "sqpack"
                                  <<109, 111, 118, 105, 101>>}}}        \* "movie"

\* SqpkFile::apply, RemoveAll
RemoveAll_apply(chunk, config_, fs_) ==
    Applied(config_,
            [fs_ EXCEPT !.names =
                [p \in {q \in DOMAIN @ :
                           ~(q \in get_all_expansion_files(fs_, config_.game_path, chunk.expansion_id)
                             /\ remove_all_filter(q)
                             /\ remove_file(fs_, q).ok)} |-> @[p]]])

\* SqpkFile::apply, DeleteFile and MakeDirTree
DeleteFile_removed(config_, fs_, removed) ==
    IF removed.ok THEN Applied(config_, removed.fs) ELSE NotApplied(removed.err, config_, fs_)
DeleteFile_apply(config_, fs_, full_path) ==
    CASE is_file(fs_, full_path) -> DeleteFile_removed(config_, fs_, remove_file(fs_, full_path))
      [] is_dir(fs_, full_path) -> NotApplied(IoErrorOf("IsADirectory"), config_, fs_)
      [] OTHER -> Applied(config_, fs_)
MakeDirTree_made(config_, fs_, made) ==
    IF made.ok THEN Applied(config_, made.fs) ELSE NotApplied(made.err, config_, fs_)
MakeDirTree_apply(config_, fs_, full_path) ==
    MakeDirTree_made(config_, fs_, create_dir_all(fs_, full_path))

\* SqpkFile::apply
SqpkFile_apply(chunk, config_, fs_) ==
    CASE chunk.operation = "AddFile" ->
            AddFile_apply(chunk, config_, fs_,
                          resolve_full_path(config_.game_path, chunk.target_file))
      [] chunk.operation = "RemoveAll" -> RemoveAll_apply(chunk, config_, fs_)
      [] chunk.operation = "DeleteFile" ->
            DeleteFile_apply(config_, fs_,
                             resolve_full_path(config_.game_path, chunk.target_file))
      [] chunk.operation = "MakeDirTree" ->
            MakeDirTree_apply(config_, fs_,
                              resolve_full_path(config_.game_path, chunk.target_file))

\* SqpkCommand::apply; index and patch-info do nothing.
SqpkCommand_apply(chunk, config_, fs_) ==
    CASE chunk.cmd = "A" -> SqpkAddData_apply(chunk, config_, fs_)
      [] chunk.cmd = "D" -> SqpkDeleteData_apply(chunk, config_, fs_)
      [] chunk.cmd = "E" -> SqpkExpandData_apply(chunk, config_, fs_)
      [] chunk.cmd = "F" -> SqpkFile_apply(chunk, config_, fs_)
      [] chunk.cmd = "H" -> SqpkHeader_apply(chunk, config_, fs_)
      [] chunk.cmd = "T" -> SqpkTargetInfo_apply(chunk, config_, fs_)
      [] chunk.cmd \in {"I", "X"} -> Applied(config_, fs_)

\* ZiPatchChunk::apply; the file header, the free space, the end of file
\* and XXXX do nothing.
ZiPatchChunk_apply(chunk, config_, fs_) ==
    CASE chunk.type = "ADIR" -> AddDirectoryChunk_apply(chunk, config_, fs_)
      [] chunk.type = "DELD" -> DeleteDirectoryChunk_apply(chunk, config_, fs_)
      [] chunk.type = "APLY" -> ApplyOptionChunk_apply(chunk, config_, fs_)
      [] chunk.type = "SQPK" -> SqpkCommand_apply(chunk, config_, fs_)
      [] chunk.type \in {"FHDR", "APFS", "EOF_", "XXXX"} -> Applied(config_, fs_)

(***************************************************************************)
(* Patch streams for the model's runs, built the way the format lays them  *)
(* out.                                                                    *)
(***************************************************************************)
BE16(n) == <<n \div 256, n % 256>>
BE32(n) == <<n \div 16777216, (n \div 65536) % 256, (n \div 256) % 256, n % 256>>
Zeros(n) == [i \in 1..n |-> 0]

\* The twelve bytes of the magic as they stand in a stream.
MagicBytes == Reverse(ZIPATCH_MAGIC[1]) \o Reverse(ZIPATCH_MAGIC[2]) \o Reverse(ZIPATCH_MAGIC[3])

\* A chunk is described by [size, tag, body, crc_xor]: the size word, the
\* tag, the body, and the bits in which the trailing word differs from the
\* CRC32 of tag and body.  Ch is a well-formed chunk.
Ch(tag, body) == [size |-> BE32(Len(body)), tag |-> tag, body |-> body,
                  crc_xor |-> <<0, 0, 0, 0>>]

\* A framed chunk: size, tag, body, trailing word.
Frame(c) == c.size \o c.tag \o c.body \o XorWord(Crc32(c.tag \o c.body), c.crc_xor)

RECURSIVE Frames(_)
Frames(chunks) ==
    IF chunks = <<>> THEN <<>>
    ELSE Frames(SubSeq(chunks, 1, Len(chunks) - 1)) \o Frame(chunks[Len(chunks)])

\* The bytes of a patch: the magic, then the chunks.
Assemble(chunks) == MagicBytes \o Frames(chunks)

\* The offset of the size word of chunk k of a patch.
RECURSIVE ChunkOffset(_, _)
ChunkOffset(chunks, k) ==
    IF k = 1 THEN 12
    ELSE ChunkOffset(chunks, k - 1) + 12 + Len(chunks[k - 1].body)

\* Bodies.  The words of a version 3 header are 1..12 in the order of the
\* layout, so that each decoded field tells which word it came from.
FhdrV2Body == <<0, 0, 2, 0>> \o <<68, 48, 48, 48>> \o BE32(7) \o Zeros(8)
FhdrV3Body == <<0, 0, 3, 0>> \o <<68, 48, 48, 48>> \o BE32(7)
              \o BE32(1) \o BE32(2) \o BE32(3) \o BE32(4) \o BE32(5) \o BE32(6)
              \o BE32(7) \o BE32(8) \o BE32(9) \o BE32(10) \o BE32(11) \o BE32(12)
              \o Zeros(184)
DirBody(name) == BE32(Len(name)) \o name
AplyBody(kind, value) == BE32(kind) \o <<0, 0, 0, 4>> \o BE32(value)
ApfsBody == Zeros(7) \o <<1>> \o Zeros(7) \o <<2>>
PackId(main_id, sub_id, file_id) == BE16(main_id) \o BE16(sub_id) \o BE32(file_id)

\* An SQPK body: the inner size (that of the whole body), the command
\* byte, the command's data.
SqpkBody(cmd, rest) == BE32(5 + Len(rest)) \o <<cmd>> \o rest

TargetInfoRest(platform) ==
    Zeros(3) \o BE16(platform) \o <<255, 255>> \o <<0, 0>> \o BE16(1) \o Zeros(16) \o Zeros(96)
PatchInfoRest == <<1, 2, 0>> \o Zeros(7) \o <<9>>
IndexRest == <<65, 0, 0>> \o PackId(10, 0, 0) \o Zeros(7) \o <<5>> \o BE32(3) \o BE32(1)
DeleteDataRest == Zeros(3) \o PackId(10, 256, 1) \o BE32(2) \o BE32(1) \o BE32(0)
AddDataRest == Zeros(3) \o PackId(4, 0, 0) \o BE32(1) \o BE32(1) \o BE32(0)
               \o [i \in 1..128 |-> i]
HeaderRest(file_kind, header_kind, file_id) ==
    <<file_kind, header_kind, 0>> \o PackId(10, 0, file_id) \o [i \in 1..HEADER_SIZE |-> i % 251]
FileRest(op, file_offset, expansion_id, path, blocks) ==
    <<op, 0, 0>> \o Zeros(4) \o BE32(file_offset) \o Zeros(4) \o BE32(5)
        \o BE32(Len(path)) \o BE16(expansion_id) \o <<0, 0>> \o path \o blocks

\* A raw block of five bytes and a deflated block of ten, each 128 bytes on
\* the wire.
RawBlock == <<16, 0, 0, 0>> \o Zeros(4) \o <<0, 125, 0, 0>> \o <<5, 0, 0, 0>>
            \o <<1, 2, 3, 4, 5>> \o Zeros(107)
DeflatedBlock == <<16, 0, 0, 0>> \o Zeros(4) \o <<10, 0, 0, 0>> \o <<20, 0, 0, 0>>
                 \o [i \in 1..112 |-> IF i <= 10 THEN 200 + i ELSE 0]

PathX == <<120, 46, 100, 97, 116>> \o <<0>>                  \* "x.dat", NUL-terminated
PathY == <<121, 46, 100, 97, 116>> \o <<0>>                  \* "y.dat"
DirAB == <<97, 47, 98>>                                  \* "a/b"
\* The name calculate_changed_files derives for pack file 04/0000, file 0,
\* on Win32: an ADIR may carry the same name.
PackName == <<47, 115, 113, 112, 97, 99, 107, 47, 102, 102, 120, 105, 118, 47, 48, 52, 48, 48, 48, 48, 46, 119, 105, 110, 51, 50, 46, 100, 97, 116, 48>>

ChFhdr2 == Ch(TAG_FHDR, FhdrV2Body)
ChFhdr3 == Ch(TAG_FHDR, FhdrV3Body)
ChEof == Ch(TAG_EOF, <<>>)
\* An XXXX chunk whose four body bytes are the CRC32 of its tag.
ChXxxx == Ch(TAG_XXXX, <<90, 128, 137, 195>>)

\* Well-formed patches: every chunk has the body its decoder reads, or a
\* longer one, and the CRC32 of its tag and body.
Patches ==
    [empty |-> <<ChFhdr3, ChEof>>,
     dirs |-> <<ChFhdr2, Ch(TAG_ADIR, DirBody(DirAB)), Ch(TAG_DELD, DirBody(DirAB)),
                Ch(TAG_APLY, AplyBody(1, 1)), Ch(TAG_APFS, ApfsBody), ChXxxx, ChEof>>,
     sqpk |-> <<ChFhdr2, Ch(TAG_SQPK, SqpkBody(84, TargetInfoRest(2))),
                Ch(TAG_SQPK, SqpkBody(88, PatchInfoRest)),
                Ch(TAG_SQPK, SqpkBody(73, IndexRest)),
                Ch(TAG_SQPK, SqpkBody(68, DeleteDataRest)), ChEof>>,
     files |-> <<ChFhdr2, Ch(TAG_SQPK, SqpkBody(70, FileRest(65, 0, 0, PathX, <<>>))),
                 Ch(TAG_SQPK, SqpkBody(70, FileRest(65, 128, 0, PathX, <<>>))),
                 Ch(TAG_SQPK, SqpkBody(70, FileRest(68, 0, 0, PathY, <<>>))),
                 Ch(TAG_SQPK, SqpkBody(70, FileRest(77, 0, 0, DirAB, <<>>))),
                 Ch(TAG_SQPK, SqpkBody(70, FileRest(82, 0, 1, <<>>, <<>>))), ChEof>>,
     big |-> <<ChFhdr2, Ch(TAG_SQPK, SqpkBody(72, HeaderRest(68, 86, 0))),
               Ch(TAG_SQPK, SqpkBody(72, HeaderRest(73, 73, 1))),
               Ch(TAG_SQPK, SqpkBody(65, AddDataRest)),
               Ch(TAG_SQPK, SqpkBody(69, AddDataRest)),
               Ch(TAG_ADIR, DirBody(PackName)),
               Ch(TAG_SQPK, SqpkBody(70, FileRest(65, 0, 0, PathY, RawBlock \o DeflatedBlock))),
               ChEof>>,
     blocks |-> <<ChFhdr2, Ch(TAG_SQPK, SqpkBody(65, AddDataRest)),
                  Ch(TAG_SQPK, SqpkBody(69, AddDataRest)),
                  Ch(TAG_SQPK, SqpkBody(70, FileRest(65, 0, 0, PathY, RawBlock))), ChEof>>,
     late |-> <<ChXxxx, ChFhdr2, ChFhdr3, ChEof>>,
     nohdr |-> <<Ch(TAG_ADIR, DirBody(DirAB)), ChEof, ChFhdr2>>]

PatchNames == DOMAIN Patches

\* The empty patch: the magic, a version 3 header, EOF_.
EmptyPatch == Assemble(Patches.empty)

\* A byte with bit k flipped.
FlipBit(v, k) == IF Bit(v, k) = 1 THEN v - Pow2(k) ELSE v + Pow2(k)

\* Whether byte i of the body of chunk c is one its decoder checks or uses
\* as a length: the version byte of FHDR; the name length of ADIR and DELD;
\* of SQPK the inner size and the command byte, the block count of A and E,
\* the platform of T, and of F the operation, the path length and the blocks.
DecoderChecks(c, i) ==
    CASE c.tag = TAG_FHDR -> i = 3
      [] c.tag \in {TAG_ADIR, TAG_DELD} -> i \in 1..4
      [] c.tag = TAG_SQPK ->
            \/ i \in 1..5
            \/ c.body[5] \in {65, 69} /\ i \in 21..24
            \/ c.body[5] = 84 /\ i \in 9..10
            \/ c.body[5] = 70 /\ (i = 6 \/ i \in 25..28
                                   \/ i > 32 + U32(SubSeq(c.body, 25, 28)))
      [] OTHER -> FALSE

\* The patches whose chunks are flipped, and the flipped streams: one bit
\* of one of the first MaxFlipOffset body bytes of one chunk.
FlipBases == {"empty", "dirs", "sqpk", "files", "blocks"}

\* The streams that differ from `bytes`, the stream of patch n, in one bit
\* of chunk k.
FlipsOfChunk(n, bytes, k) ==
    { [bytes |-> [bytes EXCEPT ![ChunkOffset(Patches[n], k) + 8 + i] = FlipBit(@, b)],
       info |-> [family |-> "flipped", name |-> n,
                 offset |-> ChunkOffset(Patches[n], k),
                 index |-> i, bit |-> b,
                 checked |-> DecoderChecks(Patches[n][k], i)]]
      : i \in 1..Min(Len(Patches[n][k].body), MaxFlipOffset), b \in 0..7 }

FlippedInputs(bases) ==
    UNION { UNION { FlipsOfChunk(n, bytes, k) : k \in 1..Len(Patches[n]), bytes \in {Assemble(Patches[n])} }
            : n \in bases }

ValidInputs ==
    { [bytes |-> Assemble(Patches[n]), info |-> [family |-> "valid", name |-> n]]
      : n \in PatchNames }

\* Streams that are not well-formed patches are described by [magic,
\* chunks, tail, drop]: the bytes in place of the magic, the chunks, bytes
\* after the last chunk, and the number of bytes cut from the end.
Malformed(chunks, tail, drop) ==
    [magic |-> MagicBytes, chunks |-> chunks, tail |-> tail, drop |-> drop]
DropLast(b, n) == SubSeq(b, 1, Len(b) - n)
StreamBytes(s) == DropLast(s.magic \o Frames(s.chunks) \o s.tail, s.drop)

\*   a chunk framed with a size word of its own choosing;
ChSized(size, tag, body) == [size |-> size, tag |-> tag, body |-> body,
                             crc_xor |-> <<0, 0, 0, 0>>]
\*   a chunk with a wrong trailing word;
ChBadCrc(c) == [c EXCEPT !.crc_xor = <<0, 0, 1, 0>>]
\*   a version 3 header body with the given third and fourth version bytes.
FhdrBodyVersion(b3, b4) == <<0, 0, b3, b4>> \o SubSeq(FhdrV3Body, 5, 244)

FhdrVersionBytes == {0, 1, 2, 3, 4, 255}
FhdrUpperBytes == {0, 1}

\* After the magic and, unless said otherwise, a version 2 header:
MalformedStreams ==
    [badmagic |-> [Malformed(<<ChFhdr2, ChEof>>, <<>>, 0) EXCEPT !.magic[12] = 11],
     shortmagic |-> Malformed(<<>>, <<>>, 7),
     nochunks |-> Malformed(<<>>, <<>>, 0),
     \* APLY with a size of 4: the decoder reads 12 bytes
     overread |-> Malformed(<<ChFhdr2, ChSized(BE32(4), TAG_APLY, <<0, 0, 0, 1>>), ChEof>>,
                            <<>>, 0),
     \* the same, the 12 bytes followed by the CRC32 of the tag and them
     overread_crc |-> Malformed(<<ChFhdr2, ChSized(BE32(4), TAG_APLY, AplyBody(1, 1)), ChEof>>,
                                <<>>, 0),
     tag_unknown |-> Malformed(<<ChFhdr2, Ch(<<90, 90, 90, 90>>, <<1, 2>>), ChEof>>, <<>>, 0),
     tag_nul |-> Malformed(<<ChFhdr2, Ch(<<70, 72, 68, 0>>, <<>>), ChEof>>, <<>>, 0),
     tag_high |-> Malformed(<<ChFhdr2, Ch(<<70, 200, 68, 82>>, <<>>), ChEof>>, <<>>, 0),
     tag_first |-> Malformed(<<Ch(<<102, 104, 100, 114>>, FhdrV2Body), ChEof>>, <<>>, 0),
     cmd_unknown |-> Malformed(<<ChFhdr2, Ch(TAG_SQPK, SqpkBody(90, Zeros(3))), ChEof>>,
                               <<>>, 0),
     cmd_lower |-> Malformed(<<ChFhdr2, Ch(TAG_SQPK, SqpkBody(120, PatchInfoRest)), ChEof>>,
                             <<>>, 0),
     cmd_unknown_size |->
         Malformed(<<ChFhdr2, Ch(TAG_SQPK, BE32(99) \o <<90>> \o Zeros(3)), ChEof>>, <<>>, 0),
     size_mismatch |->
         Malformed(<<ChFhdr2, Ch(TAG_SQPK, BE32(17) \o <<88>> \o PatchInfoRest), ChEof>>,
                   <<>>, 0),
     size_negative |->
         Malformed(<<ChFhdr2, Ch(TAG_SQPK, <<255, 255, 255, 240>> \o <<88>> \o PatchInfoRest),
                     ChEof>>, <<>>, 0),
     size_only |-> Malformed(<<ChFhdr2>>, BE32(4) \o TAG_SQPK \o BE32(5), 0),
     inner_short |-> Malformed(<<ChFhdr2>>, BE32(16) \o TAG_SQPK \o <<0, 0>>, 0),
     cmd_missing |-> Malformed(<<ChFhdr2>>, BE32(4) \o TAG_SQPK \o BE32(4), 0),
     badcrc |-> Malformed(<<ChFhdr2, ChBadCrc(Ch(TAG_ADIR, DirBody(DirAB))), ChEof>>, <<>>, 0),
     badcrc_first |-> Malformed(<<ChBadCrc(ChFhdr2), ChEof>>, <<>>, 0),
     platform4 |-> Malformed(<<ChFhdr2, Ch(TAG_SQPK, SqpkBody(84, TargetInfoRest(4))), ChEof>>,
                             <<>>, 0),
     platform260 |->
         Malformed(<<ChFhdr2, Ch(TAG_SQPK, SqpkBody(84, TargetInfoRest(260))), ChEof>>,
                   <<>>, 0),
     \* the dirs patch without the last two bytes of the trailing word of EOF_
     cut_crc |-> Malformed(Patches.dirs, <<>>, 2),
     \* a stream that ends after three bytes of the body of ADIR
     cut_body |-> Malformed(<<ChFhdr2, Ch(TAG_ADIR, DirBody(DirAB))>>, <<>>, 7),
     \* a stream that ends after 22 bytes of the body of a version 3 header
     cut_header |-> Malformed(<<ChFhdr3>>, <<>>, 226),
     bigsize |-> Malformed(<<ChFhdr2, ChSized(BE32(1000), TAG_XXXX, <<1, 2, 3>>)>>, <<>>, 0),
     hugesize |-> Malformed(<<ChFhdr2, ChSized(<<255, 255, 255, 255>>, TAG_XXXX, <<1, 2, 3>>)>>,
                            <<>>, 0),
     dirlen |-> Malformed(<<ChFhdr2, Ch(TAG_ADIR, BE32(200) \o DirAB), ChEof>>, <<>>, 0),
     version_low |->
         Malformed(<<Ch(TAG_FHDR, <<2, 0, 0, 0>> \o SubSeq(FhdrV2Body, 5, 20)), ChEof>>,
                   <<>>, 0),
     version_short |-> Malformed(<<>>, BE32(4) \o TAG_FHDR \o <<0, 0, 2, 0>>, 0)]

MalformedInputs ==
    { [bytes |-> StreamBytes(MalformedStreams[n]),
       info |-> [family |-> "malformed", name |-> n]]
      : n \in DOMAIN MalformedStreams }
    \cup
    { [bytes |-> Assemble(<<Ch(TAG_FHDR, FhdrBodyVersion(b3, b4)), ChEof>>),
       info |-> [family |-> "version", name |-> "version", word |-> <<0, 0, b3, b4>>]]
      : b3 \in FhdrVersionBytes, b4 \in FhdrUpperBytes }

\* ZiPatchConfig::new, and the builder's platform setter.
ZiPatchConfig_new(game_path) ==
    [game_path |-> game_path, platform |-> "Unknown", ignore_missing |-> FALSE,
     ignore_old_mismatch |-> FALSE, store |-> <<>>]
ZiPatchConfigBuilder_platform(c, platform) == [c EXCEPT !.platform = platform]

\* The installation directory of the configurations: "/g".
GamePath == <<47, 103>>

\* A file system: the directories, the names of the files, each the number
\* of the file it names, the bytes of each file, and the names the system
\* refuses to remove.
EmptyFs == [dirs |-> {<<47>>}, names |-> <<>>, files |-> <<>>, held |-> {}]

(***************************************************************************)
(* Patches that are applied, and the installations they are applied to.    *)
(***************************************************************************)
AddDataRestOf(pack, block_offset, block_number, block_delete_number) ==
    Zeros(3) \o pack \o BE32(block_offset) \o BE32(block_number) \o BE32(block_delete_number)
        \o [i \in 1..(128 * block_number) |-> 1 + (i % 100)]
DeleteDataRestOf(pack, block_offset, block_number) ==
    Zeros(3) \o pack \o BE32(block_offset) \o BE32(block_number) \o BE32(0)
HeaderRestOf(file_kind, header_kind, pack) ==
    <<file_kind, header_kind, 0>> \o pack \o [i \in 1..HEADER_SIZE |-> 1 + (i % 250)]

\* A deflated block of one stored block of four bytes, and a block whose
\* deflate stream starts with block type 3; each 128 bytes on the wire.
StoredBlock == <<16, 0, 0, 0>> \o Zeros(4) \o <<9, 0, 0, 0>> \o <<4, 0, 0, 0>>
               \o <<1, 4, 0, 251, 255, 9, 8, 7, 6>> \o Zeros(103)
BadBlock == <<16, 0, 0, 0>> \o Zeros(4) \o <<9, 0, 0, 0>> \o <<4, 0, 0, 0>>
            \o <<7, 4, 0, 251, 255, 9, 8, 7, 6>> \o Zeros(103)

PathCZ == <<99, 47, 122, 46, 100, 97, 116>> \o <<0>>                       \* "c/z.dat"
DirC == <<99>>                                                       \* "c"

ChA(pack, block_offset, block_number, block_delete_number) ==
    Ch(TAG_SQPK, SqpkBody(65, AddDataRestOf(pack, block_offset, block_number, block_delete_number)))
ChD(pack, block_offset, block_number) ==
    Ch(TAG_SQPK, SqpkBody(68, DeleteDataRestOf(pack, block_offset, block_number)))
ChH(file_kind, header_kind, pack) ==
    Ch(TAG_SQPK, SqpkBody(72, HeaderRestOf(file_kind, header_kind, pack)))
ChT(platform) == Ch(TAG_SQPK, SqpkBody(84, TargetInfoRest(platform)))
ChF(op, file_offset, expansion_id, path, blocks) ==
    Ch(TAG_SQPK, SqpkBody(70, FileRest(op, file_offset, expansion_id, path, blocks)))

ApplyPatches ==
    [header |-> <<ChFhdr2, ChH(68, 86, PackId(10, 256, 0)), ChH(73, 73, PackId(10, 256, 1)),
                  ChH(68, 68, PackId(10, 256, 0)), ChEof>>,
     data |-> <<ChFhdr2, ChA(PackId(4, 0, 0), 2, 1, 1), ChA(PackId(4, 0, 0), 0, 1, 0),
                ChD(PackId(4, 0, 0), 1, 2), ChA(PackId(4, 0, 0), 6, 1, 2),
                ChD(PackId(4, 0, 0), 1, 0), ChEof>>,
     platform |-> <<ChFhdr2, ChA(PackId(4, 0, 0), 1, 1, 0), ChT(2), ChA(PackId(4, 0, 0), 1, 1, 0),
                    ChH(68, 86, PackId(10, 256, 0)), ChT(1), ChD(PackId(4, 0, 0), 0, 1), ChEof>>,
     file |-> <<ChFhdr2, ChF(65, 0, 0, PathX, RawBlock \o StoredBlock),
                ChF(65, 3, 0, PathX, RawBlock), ChF(65, 0, 0, PathY, <<>>),
                ChF(65, 0, 0, PathX, StoredBlock \o RawBlock \o StoredBlock), ChEof>>,
     refile |-> <<ChFhdr2, ChF(65, 0, 0, PathX, RawBlock), ChF(68, 0, 0, PathX, <<>>),
                  ChF(65, 0, 0, PathX, StoredBlock), ChF(65, 2, 0, PathX, RawBlock), ChEof>>,
     dirs |-> <<ChFhdr2, Ch(TAG_ADIR, DirBody(DirAB)), ChF(77, 0, 0, DirC, <<>>),
                Ch(TAG_APLY, AplyBody(1, 1)), ChF(65, 0, 0, PathCZ, RawBlock),
                Ch(TAG_DELD, DirBody(DirAB)), ChF(82, 0, 1, <<>>, <<>>),
                ChF(82, 0, 0, <<>>, <<>>),
                ChF(65, 0, 0, PathCZ, RawBlock \o BadBlock), ChEof>>,
     options |-> <<ChFhdr2, Ch(TAG_APLY, AplyBody(2, 1)), Ch(TAG_APLY, AplyBody(1, 7)),
                   Ch(TAG_APLY, AplyBody(3, 1)), Ch(TAG_APLY, AplyBody(1, 0)),
                   ChF(65, 0, 0, PathY, RawBlock), Ch(TAG_APLY, AplyBody(0, 1)),
                   Ch(TAG_APLY, AplyBody(2, 0)), ChEof>>,
     \* a chunk that fails its check, between chunks that apply: a wrong
     \* trailing word, an inner size that is not the size of the chunk, a
     \* tag that is not known
     badsum |-> <<ChFhdr2, ChF(65, 0, 0, PathY, RawBlock),
                  ChBadCrc(ChD(PackId(4, 0, 0), 0, 1)),
                  ChF(65, 0, 0, PathX, RawBlock), ChEof>>,
     badsize |-> <<ChFhdr2, ChT(2),
                   Ch(TAG_SQPK, BE32(99) \o <<68>> \o DeleteDataRestOf(PackId(4, 0, 0), 0, 1)),
                   Ch(TAG_ADIR, DirBody(DirAB)), ChEof>>,
     badtag |-> <<ChFhdr2, Ch(TAG_ADIR, DirBody(DirAB)), Ch(<<90, 90, 90, 90>>, DirBody(DirAB)),
                  ChF(65, 0, 0, PathX, RawBlock), ChEof>>]

ApplyInputs ==
    { [bytes |-> Assemble(ApplyPatches[n]), info |-> [family |-> "apply", name |-> n]]
      : n \in DOMAIN ApplyPatches }

\* An installation in "/g", with pack files, movies, a file "x.dat" and a
\* file in a directory below "sqpack/ex1"; and
\* the same with the directories and a pack file of the same names at the
\* root.
OldBytes(n) == [i \in 1..n |-> 101 + (i % 150)]
InstallDirs == {<<47>>, GamePath, <<47, 103, 47, 115, 113, 112, 97, 99, 107>>, <<47, 103, 47, 115, 113, 112, 97, 99, 107, 47, 102, 102, 120, 105, 118>>, <<47, 103, 47, 115, 113, 112, 97, 99, 107, 47, 101, 120, 49>>, <<47, 103, 47, 109, 111, 118, 105, 101>>, <<47, 103, 47, 109, 111, 118, 105, 101, 47, 101, 120, 49>>, <<47, 103, 47, 115, 113, 112, 97, 99, 107, 47, 101, 120, 49, 47, 115, 117, 98>>}
InstallNames == <<<<47, 103, 47, 115, 113, 112, 97, 99, 107, 47, 102, 102, 120, 105, 118, 47, 48, 52, 48, 48, 48, 48, 46, 119, 105, 110, 51, 50, 46, 100, 97, 116, 48>>, <<47, 103, 47, 120, 46, 100, 97, 116>>, <<47, 103, 47, 115, 113, 112, 97, 99, 107, 47, 101, 120, 49, 47, 97, 46, 118, 97, 114>>, <<47, 103, 47, 115, 113, 112, 97, 99, 107, 47, 101, 120, 49, 47, 48, 97, 48, 49, 48, 48, 46, 119, 105, 110, 51, 50, 46, 105, 110, 100, 101, 120>>, <<47, 103, 47, 109, 111, 118, 105, 101, 47, 101, 120, 49, 47, 48, 48, 48, 48, 48, 46, 98, 107, 50>>, <<47, 103, 47, 109, 111, 118, 105, 101, 47, 101, 120, 49, 47, 48, 48, 48, 48, 52, 46, 98, 107, 50>>, <<47, 103, 47, 115, 113, 112, 97, 99, 107, 47, 101, 120, 49, 47, 115, 117, 98, 47, 107, 46, 100, 97, 116>>>>
InstallFs ==
    [dirs |-> InstallDirs,
     names |-> [p \in {InstallNames[k] : k \in 1..7} |->
                   CHOOSE k \in 1..7 : InstallNames[k] = p],
     files |-> <<OldBytes(640), OldBytes(12), OldBytes(2), OldBytes(3), OldBytes(4), OldBytes(5),
                 OldBytes(6)>>,
     held |-> {}]
RootedFs ==
    [InstallFs EXCEPT !.dirs = @ \cup {<<47, 115, 113, 112, 97, 99, 107>>, <<47, 115, 113, 112, 97, 99, 107, 47, 102, 102, 120, 105, 118>>, <<47, 115, 113, 112, 97, 99, 107, 47, 101, 120, 49>>},
                      !.names = (<<47, 115, 113, 112, 97, 99, 107, 47, 102, 102, 120, 105, 118, 47, 48, 52, 48, 48, 48, 48, 46, 119, 105, 110, 51, 50, 46, 100, 97, 116, 48>> :> 8) @@ @,
                      !.files = Append(@, OldBytes(640))]
\* The installation with an index file and "x.dat" that the system refuses
\* to remove.
HeldFs ==
    [InstallFs EXCEPT !.held = {<<47, 103, 47, 115, 113, 112, 97, 99, 107, 47, 101, 120, 49, 47, 48, 97, 48, 49, 48, 48, 46, 119, 105, 110, 51, 50, 46, 105, 110, 100, 101, 120>>,
                                GamePath \o <<47, 120, 46, 100, 97, 116>>}]

\* The configurations a patch is applied with: Win32 or no platform, with
\* or without a store.
ApplyConfigs ==
    { [ZiPatchConfigBuilder_platform(ZiPatchConfig_new(GamePath), p) EXCEPT !.store = s]
      : p \in {"Win32", "Unknown"}, s \in {<<>>, <<SqexFileStreamStore_new>>} }

(***************************************************************************)
(* The state machine: a patch stream is opened with ZiPatchFile::new, and  *)
(* the two inspection passes are called on the open file, any number of    *)
(* times.  Each loop of the driver advances one chunk per step.            *)
(***************************************************************************)
VARIABLES
    data,           \* the bytes of the stream
    input,          \* how the stream was built (not seen by the program)
    reader,         \* the stream position and the hasher: [pos, crc32]
    pc,             \* "start", "new", "open", "counts", "changes", "failed"
    head_position,  \* ZiPatchFile.head_position
    header,         \* ZiPatchFile.header: <<>> before it is found, else <<h>>
    scanned,        \* the types of the chunks ZiPatchFile::new has read
    last,           \* the last call of ZiPatchChunk::read: <<>> or <<result>>
    pass,           \* the locals of the running pass
    ret,            \* what the last operation returned
    config,         \* the ZiPatchConfig of the caller
    fs,             \* the file system the configuration points into
    applied,        \* what the last ZiPatchChunk::apply did: <<>> or <<record>>
    named,          \* the last pack file name asked for: <<>> or <<record>>
    wait,           \* the call of wait_for_stream that runs or has returned
    got,            \* the calls of get_stream on the store, in order
    guarded,        \* the stream an AdvanceGuard stands on, and the guard
    decoded,        \* the last block decoded on its own: <<>> or <<record>>
    plan            \* what the caller keeps of an inspection and of the pass
                    \* that applies the patch after it

vars == <<data, input, reader, pc, head_position, header, scanned, last, pass, ret,
          config, fs, applied, named, wait, got, guarded, decoded, plan>>

\* The patch file and the passes over it.
patchVars == <<data, input, reader, pc, head_position, header, scanned, last, pass, ret>>
\* The installation a patch is applied to.
applyVars == <<config, fs, applied>>
\* The helpers called on their own.
utilVars == <<named, wait, got, guarded, decoded, plan>>

\* The configurations the inspection passes are called with.
InspectConfigs == {ZiPatchConfigBuilder_platform(ZiPatchConfig_new(GamePath), p) : p \in Platform}

NoPass == [start_pos |-> 0]
NotWaiting == [status |-> "idle"]
NoGuard == [status |-> "none"]
NoPlan == [kept |-> <<>>, passes |-> 0, from |-> <<>>, ok |-> FALSE, wrote |-> {}]
NoRet == [op |-> "none", ok |-> FALSE]
Returned(op, ok, val) == [op |-> op, ok |-> ok, val |-> val]

InitWith(inputs, configs, installs) ==
    /\ \E i \in inputs : data = i.bytes /\ input = i.info
    /\ config \in configs
    /\ fs \in installs
    /\ applied = <<>>
    /\ named = <<>>
    /\ wait = NotWaiting
    /\ got = <<>>
    /\ guarded = NoGuard
    /\ decoded = <<>>
    /\ plan = NoPlan
    /\ reader = [pos |-> 0, crc32 |-> Crc32_new]
    /\ pc = "start"
    /\ head_position = 0
    /\ header = <<>>
    /\ scanned = <<>>
    /\ last = <<>>
    /\ pass = NoPass
    /\ ret = NoRet

Init == InitWith(ValidInputs \cup MalformedInputs, InspectConfigs, {EmptyFs})

InitFlipped == InitWith(FlippedInputs(FlipBases), {ZiPatchConfig_new(GamePath)}, {EmptyFs})

\* ZiPatchFile::new, up to its loop: the three words of the magic.
New ==
    /\ pc = "start"
    /\ LET m == ReadFields(data, reader, <<4, 4, 4>>)
           magic == <<Reverse(m.f[1]), Reverse(m.f[2]), Reverse(m.f[3])>>
       IN  /\ reader' = m.r
           /\ IF ~m.ok
              THEN /\ pc' = "failed"
                   /\ ret' = Returned("new", FALSE, IoError)
                   /\ head_position' = head_position
              ELSE IF ~MagicMatches(magic)
              THEN /\ pc' = "failed"
                   /\ ret' = Returned("new", FALSE, InvalidMagic(magic))
                   /\ head_position' = head_position
              ELSE /\ pc' = "new"
                   /\ ret' = ret
                   /\ head_position' = m.r.pos
    /\ UNCHANGED <<data, input, header, scanned, last, pass>>
    /\ UNCHANGED applyVars
    /\ UNCHANGED utilVars

\* One turn of the loop of ZiPatchFile::new, and what follows the loop.
NewScan ==
    /\ pc = "new"
    /\ \E c \in {ZiPatchChunk_read(data, reader)} :
           /\ last' = <<c>>
           /\ IF ~c.ok
              THEN /\ pc' = "failed"
                   /\ ret' = Returned("new", FALSE, c.val)
                   /\ reader' = c.r
                   /\ UNCHANGED <<header, scanned>>
              ELSE IF c.val.type = "FHDR"
              THEN /\ header' = <<c.val>>
                   /\ scanned' = Append(scanned, c.val.type)
                   /\ reader' = seek(c.r, head_position)
                   /\ pc' = "open"
                   /\ ret' = Returned("new", TRUE, c.val)
              ELSE IF c.val.type = "EOF_"
              THEN /\ scanned' = Append(scanned, c.val.type)
                   /\ reader' = c.r
                   /\ pc' = "failed"
                   /\ ret' = Returned("new", FALSE, HeaderNotFound)
                   /\ UNCHANGED header
              ELSE /\ scanned' = Append(scanned, c.val.type)
                   /\ reader' = c.r
                   /\ UNCHANGED <<pc, ret, header>>
    /\ UNCHANGED <<data, input, head_position, pass>>
    /\ UNCHANGED applyVars
    /\ UNCHANGED utilVars

\* calculate_actual_counts, up to its loop.
CallCounts ==
    /\ pc = "open"
    /\ pass' = [start_pos |-> reader.pos, counts |-> NoCounts]
    /\ reader' = seek(reader, head_position)
    /\ pc' = "counts"
    /\ ret' = NoRet
    /\ UNCHANGED <<data, input, head_position, header, scanned, last>>
    /\ UNCHANGED applyVars
    /\ UNCHANGED utilVars

\* One turn of the loop of calculate_actual_counts, and what follows it.
CountsStep ==
    /\ pc = "counts"
    /\ \E c \in {ZiPatchChunk_read(data, reader)} :
           /\ last' = <<c>>
           /\ IF ~c.ok
              THEN /\ pc' = "open"
                   /\ ret' = Returned("counts", FALSE, c.val)
                   /\ reader' = c.r
                   /\ pass' = NoPass
              ELSE IF c.val.type = "EOF_"
              THEN /\ pc' = "open"
                   /\ ret' = Returned("counts", TRUE, pass.counts)
                   /\ reader' = seek(c.r, pass.start_pos)
                   /\ pass' = NoPass
              ELSE /\ pass' = [pass EXCEPT !.counts = CountChunk(@, c.val)]
                   /\ reader' = c.r
                   /\ UNCHANGED <<pc, ret>>
    /\ UNCHANGED <<data, input, head_position, header, scanned>>
    /\ UNCHANGED applyVars
    /\ UNCHANGED utilVars

\* calculate_changed_files with the configuration, up to its loop.
CallChanges ==
    /\ pc = "open"
    /\ pass' = [start_pos |-> reader.pos, platform |-> config.platform, sets |-> NoChanges]
    /\ reader' = seek(reader, head_position)
    /\ pc' = "changes"
    /\ ret' = NoRet
    /\ UNCHANGED <<data, input, head_position, header, scanned, last>>
    /\ UNCHANGED applyVars
    /\ UNCHANGED utilVars

\* One turn of the loop of calculate_changed_files, and what follows it.
ChangesStep ==
    /\ pc = "changes"
    /\ \E c \in {ZiPatchChunk_read(data, reader)} :
           /\ last' = <<c>>
           /\ IF ~c.ok
              THEN /\ pc' = "open"
                   /\ ret' = Returned("changes", FALSE, c.val)
                   /\ reader' = c.r
                   /\ pass' = NoPass
              ELSE IF c.val.type = "EOF_"
              THEN /\ pc' = "open"
                   /\ ret' = Returned("changes", TRUE,
                                      [added |-> RetainAdded(pass.sets.added, pass.sets.modified),
                                       deleted |-> pass.sets.deleted,
                                       modified |-> pass.sets.modified])
                   /\ reader' = seek(c.r, pass.start_pos)
                   /\ pass' = NoPass
              ELSE /\ pass' = [pass EXCEPT !.sets = ChangeChunk(@, c.val, pass.platform)]
                   /\ reader' = c.r
                   /\ UNCHANGED <<pc, ret>>
    /\ UNCHANGED <<data, input, head_position, header, scanned>>
    /\ UNCHANGED applyVars
    /\ UNCHANGED utilVars

Next ==
    \/ New
    \/ NewScan
    \/ CallCounts
    \/ CountsStep
    \/ CallChanges
    \/ ChangesStep

Spec == Init /\ [][Next]_vars

\* A stream with one flipped bit is opened and read through by
\* calculate_actual_counts.
NextFlipped ==
    \/ New
    \/ NewScan
    \/ CallCounts
    \/ CountsStep

FlipSpec == InitFlipped /\ [][NextFlipped]_vars

\* A patch is applied the way the library is used: the chunks of
\* ZiPatchFile::chunks are taken one at a time and each is applied to the
\* configuration before the next is read.
InitApply == InitWith(ApplyInputs, ApplyConfigs, {InstallFs, RootedFs, HeldFs})

\* ZiPatchFile::chunks: the iterator, which remembers the position.  A
\* patch is applied again while the file system has fewer than MaxFiles
\* files.
CallChunks ==
    /\ pc = "open"
    /\ Len(fs.files) < MaxFiles
    /\ pass' = [start_pos |-> reader.pos, done |-> FALSE]
    /\ reader' = seek(reader, head_position)
    /\ pc' = "chunks"
    /\ ret' = NoRet
    /\ UNCHANGED <<data, input, head_position, header, scanned, last>>
    /\ UNCHANGED applyVars
    /\ UNCHANGED utilVars

\* ChunkIterator::next.  After the last item, and with an item that is an
\* error, the loop of the caller ends and the iterator is dropped, which
\* restores the position.
ChunksNext ==
    /\ pc = "chunks"
    /\ IF pass.done
       THEN /\ pc' = "open"
            /\ ret' = Returned("apply", TRUE, <<>>)
            /\ reader' = seek(reader, pass.start_pos)
            /\ pass' = NoPass
            /\ last' = last
       ELSE \E c \in {ZiPatchChunk_read(data, reader)} :
               /\ last' = <<c>>
               /\ IF ~c.ok
                  THEN /\ pc' = "open"
                       /\ ret' = Returned("apply", FALSE, c.val)
                       /\ reader' = seek(c.r, pass.start_pos)
                       /\ pass' = NoPass
                  ELSE /\ pc' = "apply"
                       /\ ret' = ret
                       /\ reader' = c.r
                       /\ pass' = [start_pos |-> pass.start_pos, done |-> c.val.type = "EOF_",
                                   chunk |-> c.val]
    /\ UNCHANGED <<data, input, head_position, header, scanned>>
    /\ UNCHANGED applyVars
    /\ UNCHANGED utilVars

\* ZiPatchChunk::apply on the chunk the iterator gave.  `applied` keeps the
\* chunk, the configuration and file system it was applied to, the error if
\* there was one, and whether this was the same chunk applied once more.
ApplyChunk ==
    /\ pc = "apply"
    /\ \E a \in {ZiPatchChunk_apply(pass.chunk, config, fs)} :
           /\ config' = a.config
           /\ fs' = a.fs
           /\ applied' = <<[chunk |-> pass.chunk, ok |-> a.ok, config |-> config, fs |-> fs,
                             err |-> IF a.ok THEN <<>> ELSE <<a.err>>, again |-> FALSE]>>
           /\ IF a.ok
              THEN /\ pc' = "chunks"
                   /\ UNCHANGED <<reader, pass, ret>>
              ELSE /\ pc' = "open"
                   /\ ret' = Returned("apply", FALSE, a.err)
                   /\ reader' = seek(reader, pass.start_pos)
                   /\ pass' = NoPass
    /\ UNCHANGED <<data, input, head_position, header, scanned, last>>
    /\ UNCHANGED utilVars

NextApply ==
    \/ New
    \/ NewScan
    \/ CallChunks
    \/ ChunksNext
    \/ ApplyChunk

ApplySpec == InitApply /\ [][NextApply]_vars

\* The caller applies the chunk it has just applied once more before it
\* takes the next one: ZiPatchChunk::apply takes `&mut self` and the chunk
\* stays with the caller.  The installation is in "/g"; the configurations
\* are those of InitApply and one whose game_path is "g", relative to the
\* working directory "/", with a store.
RelativeGamePath == <<103>>
AgainConfigs ==
    ApplyConfigs \cup
    { [ZiPatchConfigBuilder_platform(ZiPatchConfig_new(RelativeGamePath), "Win32")
         EXCEPT !.store = <<SqexFileStreamStore_new>>] }
AgainInputs ==
    { i \in ApplyInputs :
        i.info.name \in {"header", "data", "platform", "file", "refile", "dirs", "options"} }
InitAgain == InitWith(AgainInputs, AgainConfigs, {InstallFs, RootedFs})

ApplyAgain ==
    /\ pc = "chunks"
    /\ applied # <<>>
    /\ applied[1].ok
    /\ ~applied[1].again
    /\ \E a \in {ZiPatchChunk_apply(applied[1].chunk, config, fs)} :
           /\ config' = a.config
           /\ fs' = a.fs
           /\ applied' = <<[chunk |-> applied[1].chunk, ok |-> a.ok, config |-> config,
                             fs |-> fs, err |-> IF a.ok THEN <<>> ELSE <<a.err>>,
                             again |-> TRUE]>>
           /\ IF a.ok
              THEN /\ pc' = "chunks"
                   /\ UNCHANGED <<reader, pass, ret>>
              ELSE /\ pc' = "open"
                   /\ ret' = Returned("apply", FALSE, a.err)
                   /\ reader' = seek(reader, pass.start_pos)
                   /\ pass' = NoPass
    /\ UNCHANGED <<data, input, head_position, header, scanned, last>>
    /\ UNCHANGED utilVars

NextAgain ==
    \/ New
    \/ NewScan
    \/ CallChunks
    \/ ChunksNext
    \/ ApplyChunk
    \/ ApplyAgain

AgainSpec == InitAgain /\ [][NextAgain]_vars

\* The name of a pack file is asked for: a pack file is read from its eight
\* bytes and named for a platform.
NamedMainIds == {0, 4, 10, 255, 256, 4660}
NamedSubIds == {0, 1, 255, 256, 2560, 4660, 65280}
NamedFileIds == {0, 1, 9, 10, 123}

InitNames == InitWith({CHOOSE i \in ValidInputs : i.info.name = "empty"},
                      {ZiPatchConfig_new(GamePath)}, {EmptyFs})

\* SqpackDatFile::get_file_name
DatFileName ==
    /\ named = <<>>
    /\ \E main_id \in NamedMainIds, sub_id \in NamedSubIds, file_id \in NamedFileIds,
          platform \in Platform :
          \E f \in {SqpackFile_read_from(PackId(main_id, sub_id, file_id))} :
              named' = <<[kind |-> "dat", f |-> f, platform |-> platform,
                          name |-> SqpackDatFile_get_file_name(f, platform)]>>
    /\ UNCHANGED <<patchVars, applyVars, wait, got, guarded, decoded, plan>>

\* SqpackIndexFile::get_file_name
IndexFileName ==
    /\ named = <<>>
    /\ \E main_id \in NamedMainIds, sub_id \in NamedSubIds, file_id \in NamedFileIds,
          platform \in Platform :
          \E f \in {SqpackFile_read_from(PackId(main_id, sub_id, file_id))} :
              named' = <<[kind |-> "index", f |-> f, platform |-> platform,
                          name |-> SqpackIndexFile_get_file_name(f, platform)]>>
    /\ UNCHANGED <<patchVars, applyVars, wait, got, guarded, decoded, plan>>

NextNames ==
    \/ DatFileName
    \/ IndexFileName

NameSpec == InitNames /\ [][NextNames]_vars

\* SqexFileStream::wait_for_stream is called, on a path of the installation
\* that is a file, that is not there, or whose directory is not there.
WaitPaths ==
    {GamePath \o <<47, 120, 46, 100, 97, 116>>,                             \* "/g/x.dat"
     GamePath \o <<47, 110, 46, 100, 97, 116>>,                             \* "/g/n.dat"
     <<47, 113, 47, 109, 46, 100, 97, 116>>}                                \* "/q/m.dat"
RetryableKinds == {"PermissionDenied", "WouldBlock"}

InitRetry == InitWith({CHOOSE i \in ValidInputs : i.info.name = "empty"},
                      {ZiPatchConfig_new(GamePath)}, {InstallFs})

\* What an attempt to open gives: the error of a file another process
\* holds, or what SqexFileStream::new gives on the files as they are.
Attempt(held, fs_, path, write) ==
    IF held \in RetryableKinds THEN [ok |-> FALSE, err |-> IoErrorOf(held)]
    ELSE SqexFileStream_new(fs_, path, write)
AttemptName(opened) == IF opened.ok THEN "Ok" ELSE opened.err.error
StreamOf(res) ==
    IF res.ok THEN [ok |-> TRUE, file |-> res.st.file, pos |-> res.st.pos] ELSE res

\* wait_for_stream, up to its loop.
WaitCall ==
    /\ wait.status = "idle"
    /\ \E path \in WaitPaths, write \in BOOLEAN, tries \in 0..MaxTries :
          wait' = [status |-> "loop", path |-> path, write |-> write, tries |-> tries,
                   remaining_tries |-> tries, events |-> <<>>, result |-> <<>>]
    /\ UNCHANGED <<patchVars, applyVars, named, got, guarded, decoded, plan>>

\* One turn of the loop: the attempt, then the return, or the sleep and the
\* next turn.
WaitTurnOn(opened, turn) ==
    /\ wait' = [wait EXCEPT
                   !.status = IF turn.done THEN "returned" ELSE "loop",
                   !.remaining_tries = turn.remaining_tries,
                   !.events = @ \o <<AttemptName(opened)>>
                                \o (IF turn.sleep THEN <<"sleep">> ELSE <<>>),
                   !.result = IF turn.done THEN <<StreamOf(turn.result)>> ELSE <<>>]
    /\ fs' = IF opened.ok THEN opened.st.fs ELSE fs
WaitTurn ==
    /\ wait.status = "loop"
    /\ Len(wait.events) <= 2 * MaxTries + 2
    /\ \E held \in RetryableKinds \cup {"none"} :
          \E opened \in {Attempt(held, fs, wait.path, wait.write)} :
              \E turn \in {wait_for_stream_turn(opened, wait.path, wait.tries,
                                                 wait.remaining_tries)} :
                  WaitTurnOn(opened, turn)
    /\ UNCHANGED <<patchVars, config, applied, named, got, guarded, decoded, plan>>

NextRetry ==
    \/ WaitCall
    \/ WaitTurn

RetrySpec == InitRetry /\ [][NextRetry]_vars

\* The loop runs in the thread that called it, and neither the attempt nor
\* the sleep blocks for ever: a turn that can be taken is taken.
RetryLiveSpec == RetrySpec /\ WF_vars(WaitTurn)

\* SqexFileStreamStore::get_stream is called on one store, for a file that
\* exists and one that does not, each by its absolute path and by its path
\* from the working directory, and for a file whose directory is missing.
StorePaths ==
    {GamePath \o <<47, 120, 46, 100, 97, 116>>,                             \* "/g/x.dat"
     <<103, 47, 120, 46, 100, 97, 116>>,                                    \* "g/x.dat"
     GamePath \o <<47, 110, 46, 100, 97, 116>>,                             \* "/g/n.dat"
     <<103, 47, 110, 46, 100, 97, 116>>,                                    \* "g/n.dat"
     <<47, 113, 47, 109, 46, 100, 97, 116>>}                                \* "/q/m.dat"

InitStore ==
    InitWith({CHOOSE i \in ValidInputs : i.info.name = "empty"},
             {[ZiPatchConfig_new(GamePath) EXCEPT !.store = <<SqexFileStreamStore_new>>]},
             {InstallFs})

\* SqexFileStreamStore::get_stream; `got` keeps, call by call, the request,
\* whether it gave a stream, and the store after it.
GetStreamGave(path, write, r) ==
    /\ config' = IF r.ok THEN [config EXCEPT !.store = <<r.store>>] ELSE config
    /\ fs' = IF r.ok THEN r.fs ELSE fs
    /\ got' = Append(got, [path |-> path, write |-> write, ok |-> r.ok,
                           store |-> IF r.ok THEN r.store ELSE config.store[1]])
GetStream ==
    /\ Len(got) < MaxCalls
    /\ \E path \in StorePaths, write \in BOOLEAN :
          \E r \in {get_stream(config.store[1], fs, path, write, 5)} :
              GetStreamGave(path, write, r)
    /\ UNCHANGED <<patchVars, applied, named, wait, guarded, decoded, plan>>

NextStore == GetStream

StoreSpec == InitStore /\ [][NextStore]_vars

(***************************************************************************)
(* An AdvanceGuard on its own: it is created on a stream, a decoder reads  *)
(* through it, and it goes out of scope.                                   *)
(***************************************************************************)
\* The streams a guard is created on: n bytes 1, 2, .., n.
GuardStreams == {[k \in 1..n |-> k] : n \in {0, 3, 6, 9}}

InitGuard ==
    InitWith({CHOOSE i \in ValidInputs : i.info.name = "empty"},
             {ZiPatchConfig_new(GamePath)}, {EmptyFs})

\* AdvanceGuard::new(stream, size) on a stream that stands at position P.
GuardNew ==
    /\ guarded.status = "none"
    /\ \E d \in GuardStreams, size \in 0..MaxGuardSize :
          \E P \in 0..Len(d) :
              guarded' = [status |-> "open", d |-> d,
                          r |-> [pos |-> P, crc32 |-> Crc32_new],
                          guard |-> AdvanceGuard_new([pos |-> P, crc32 |-> Crc32_new], size),
                          size |-> size, failed |-> FALSE, value |-> FALSE]
    /\ UNCHANGED <<patchVars, applyVars, named, wait, got, decoded, plan>>

\* Read::read_exact through the guard: the call goes to the stream as it
\* is.  A decoder stops at the first read that fails.
GuardRead ==
    /\ guarded.status = "open"
    /\ ~guarded.failed
    /\ \E n \in 1..MaxGuardRead :
          \E res \in {read_exact(guarded.d, guarded.r, n)} :
              guarded' = [guarded EXCEPT !.r = res.r, !.failed = ~res.ok]
    /\ UNCHANGED <<patchVars, applyVars, named, wait, got, decoded, plan>>

\* The decoder returns, a value or an error, and the guard is dropped.
GuardDrop ==
    /\ guarded.status = "open"
    /\ \E value \in (IF guarded.failed THEN {FALSE} ELSE BOOLEAN) :
          guarded' = [guarded EXCEPT !.status = "dropped", !.value = value,
                         !.r = AdvanceGuard_drop(guarded.d, guarded.r, guarded.guard)]
    /\ UNCHANGED <<patchVars, applyVars, named, wait, got, decoded, plan>>

NextGuard ==
    \/ GuardNew
    \/ GuardRead
    \/ GuardDrop

GuardSpec == InitGuard /\ [][NextGuard]_vars

(***************************************************************************)
(* SqpkCompressedBlock::read_from on its own: a block header with the      *)
(* given fields at position P of a stream, followed by `tail` bytes.       *)
(***************************************************************************)
BlockHeaderSizes == {16, 0, 20, 128, 144}
\* compressed_size and decompressed_size: deflated blocks, then stored ones.
BlockSizes ==
    {<<c, 300>> : c \in {1, 112, 113, 200}}
        \cup {<<UncompressedMarker, n>> : n \in {0, 5, 112, 113}}
BlockStream(P, header_size, sizes, tail) ==
    Zeros(P) \o LE32(header_size) \o Zeros(4) \o LE32(sizes[1]) \o LE32(sizes[2])
        \o OldBytes(tail)

InitBlock ==
    InitWith({CHOOSE i \in ValidInputs : i.info.name = "empty"},
             {ZiPatchConfig_new(GamePath)}, {EmptyFs})

BlockRead ==
    /\ decoded = <<>>
    /\ \E P \in {0, 3}, header_size \in BlockHeaderSizes, sizes \in BlockSizes,
          tail \in {400, 130} :
          \E d \in {BlockStream(P, header_size, sizes, tail)} :
              decoded' = <<[d |-> d, P |-> P,
                            res |-> SqpkCompressedBlock_read_from(
                                        d, [pos |-> P, crc32 |-> Crc32_new])]>>
    /\ UNCHANGED <<patchVars, applyVars, named, wait, got, guarded, plan>>

NextBlock == BlockRead

BlockSpec == InitBlock /\ [][NextBlock]_vars

(***************************************************************************)
(* The iterator of ZiPatchFile::chunks on its own: the caller calls next   *)
(* as often as it likes, also after None, and drops the iterator when it   *)
(* likes.  An item is <<c>> for Some(c), c the result of                   *)
(* ZiPatchChunk::read, and <<>> for None.                                  *)
(***************************************************************************)
\* An iterator that is done after EOF_ only.
ChunkIterator_next_eof(c) == [item |-> <<c>>, done |-> c.ok /\ c.val.type = "EOF_", r |-> c.r]

\* ChunkIterator::next where the iterator is not done, c being what
\* ZiPatchChunk::read gave.
ChunkIterator_next(c) ==
    [item |-> <<c>>, done |-> IF c.ok THEN c.val.type = "EOF_" ELSE TRUE, r |-> c.r]

\* An iterator that leaves the stream where it is when it is dropped.
ChunkIterator_drop_stay(r, restore_position) == r

\* Drop for ChunkIterator
ChunkIterator_drop(r, restore_position) == seek(r, restore_position)

Nones(items) == Cardinality({k \in 1..Len(items) : items[k] = <<>>})

\* ZiPatchFile::chunks
IterCall ==
    /\ pc = "open"
    /\ pass' = [start_pos |-> reader.pos, done |-> FALSE, items |-> <<>>]
    /\ reader' = seek(reader, head_position)
    /\ pc' = "iter"
    /\ ret' = NoRet
    /\ UNCHANGED <<data, input, head_position, header, scanned, last>>
    /\ UNCHANGED applyVars
    /\ UNCHANGED utilVars

\* ChunkIterator::next
IterNext ==
    /\ pc = "iter"
    /\ IF pass.done
       THEN /\ Nones(pass.items) < MaxNone
            /\ pass' = [pass EXCEPT !.items = Append(@, <<>>)]
            /\ UNCHANGED <<reader, last>>
       ELSE \E c \in {ZiPatchChunk_read(data, reader)} :
               \E n \in {ChunkIterator_next(c)} :
                   /\ last' = <<c>>
                   /\ reader' = n.r
                   /\ pass' = [pass EXCEPT !.done = n.done, !.items = Append(@, n.item)]
    /\ UNCHANGED <<data, input, head_position, header, scanned, pc, ret>>
    /\ UNCHANGED applyVars
    /\ UNCHANGED utilVars

\* The iterator goes out of scope.
IterDrop ==
    /\ pc = "iter"
    /\ reader' = ChunkIterator_drop(reader, pass.start_pos)
    /\ pc' = "open"
    /\ pass' = NoPass
    /\ UNCHANGED <<data, input, head_position, header, scanned, last, ret>>
    /\ UNCHANGED applyVars
    /\ UNCHANGED utilVars

NextIter ==
    \/ New
    \/ NewScan
    \/ CallCounts
    \/ CountsStep
    \/ IterCall
    \/ IterNext
    \/ IterDrop

IterSpec == Init /\ [][NextIter]_vars

(***************************************************************************)
(* A caller that inspects a patch with calculate_changed_files, keeps the  *)
(* change set, and applies the patch.  Each of the two is one step here:   *)
(* the loop of the one, and the loop over chunks() with apply of the       *)
(* other, run to their end.                                                *)
(***************************************************************************)
\* calculate_changed_files from the reader r on, sets being what the loop
\* has collected: [ok, val, r].
RECURSIVE changed_files_loop(_, _, _, _)
changed_files_chunk(d, c, platform, sets) ==
    IF ~c.ok THEN [ok |-> FALSE, val |-> c.val, r |-> c.r]
    ELSE IF c.val.type = "EOF_"
    THEN [ok |-> TRUE, r |-> c.r,
          val |-> [added |-> RetainAdded(sets.added, sets.modified),
                   deleted |-> sets.deleted, modified |-> sets.modified]]
    ELSE changed_files_loop(d, c.r, platform, ChangeChunk(sets, c.val, platform))
changed_files_loop(d, r, platform, sets) ==
    changed_files_chunk(d, ZiPatchChunk_read(d, r), platform, sets)

\* The files a command has written: those that are new or have other bytes.
WrittenBy(chunk, before, after) ==
    IF chunk.type = "SQPK" /\ chunk.cmd \in {"H", "A", "D"}
    THEN {p \in DOMAIN after.names :
             \/ p \notin DOMAIN before.names
             \/ after.files[after.names[p]] # before.files[before.names[p]]}
    ELSE {}

\* `for c in patch.chunks() { c?.apply(&mut config)? }` from the reader r
\* on: [ok, config, fs, wrote], wrote being the files the H, A and D
\* commands have written.
RECURSIVE apply_loop(_, _, _, _, _)
apply_loop_applied(d, c, a, fs_, wrote) ==
    IF ~a.ok THEN [ok |-> FALSE, config |-> a.config, fs |-> a.fs, wrote |-> wrote]
    ELSE IF c.val.type = "EOF_"
    THEN [ok |-> TRUE, config |-> a.config, fs |-> a.fs, wrote |-> wrote]
    ELSE apply_loop(d, c.r, a.config, a.fs, wrote \cup WrittenBy(c.val, fs_, a.fs))
apply_loop_chunk(d, c, config_, fs_, wrote) ==
    IF ~c.ok THEN [ok |-> FALSE, config |-> config_, fs |-> fs_, wrote |-> wrote]
    ELSE apply_loop_applied(d, c, ZiPatchChunk_apply(c.val, config_, fs_), fs_, wrote)
apply_loop(d, r, config_, fs_, wrote) ==
    apply_loop_chunk(d, ZiPatchChunk_read(d, r), config_, fs_, wrote)

\* The patches whose commands are H, A, D and T only.
PlanInputs == {i \in ApplyInputs : i.info.name \in {"header", "data", "platform"}}

\* The installation with the pack files of these patches for every
\* platform, where the commands look for them.
PlanDat(id, platform) ==
    resolve_full_path(GamePath, SqpackDatFile_get_file_name(SqpackFile_read_from(id), platform))
PlanIndex(id, platform) ==
    resolve_full_path(GamePath, SqpackIndexFile_get_file_name(SqpackFile_read_from(id), platform))
PlanNames ==
    <<PlanDat(PackId(4, 0, 0), "Ps3"), PlanDat(PackId(4, 0, 0), "Ps4"),
      PlanDat(PackId(4, 0, 0), "Unknown"),
      PlanDat(PackId(10, 256, 0), "Win32"), PlanDat(PackId(10, 256, 0), "Ps3"),
      PlanDat(PackId(10, 256, 0), "Ps4"), PlanDat(PackId(10, 256, 0), "Unknown"),
      PlanIndex(PackId(10, 256, 1), "Win32"), PlanIndex(PackId(10, 256, 1), "Ps3"),
      PlanIndex(PackId(10, 256, 1), "Ps4"), PlanIndex(PackId(10, 256, 1), "Unknown")>>
PlanFs ==
    [RootedFs EXCEPT
        !.names = [q \in {PlanNames[k] : k \in 1..11} |->
                      8 + CHOOSE k \in 1..11 : PlanNames[k] = q] @@ @,
        !.files = @ \o [k \in 1..11 |-> OldBytes(200 + k)]]

InitPlan == InitWith(PlanInputs, ApplyConfigs, {PlanFs, InstallFs})

\* calculate_changed_files(&config); the caller keeps what it returns and
\* the platform of the configuration.
Inspect ==
    /\ pc = "open"
    /\ plan.kept = <<>>
    /\ \E res \in {changed_files_loop(data, seek(reader, head_position),
                                      config.platform, NoChanges)} :
          /\ plan' = [plan EXCEPT !.kept = <<[platform |-> config.platform,
                                              ok |-> res.ok, val |-> res.val]>>]
          /\ ret' = Returned("changes", res.ok, res.val)
          /\ reader' = IF res.ok THEN seek(res.r, reader.pos) ELSE res.r
    /\ UNCHANGED <<data, input, pc, head_position, header, scanned, last, pass>>
    /\ UNCHANGED applyVars
    /\ UNCHANGED <<named, wait, got, guarded, decoded>>

\* The pass that applies the patch.
ApplyAll ==
    /\ pc = "open"
    /\ plan.passes < MaxPasses
    /\ \E res \in {apply_loop(data, seek(reader, head_position), config, fs, {})} :
          /\ plan' = [plan EXCEPT !.passes = @ + 1, !.from = <<config.platform>>,
                                  !.ok = res.ok, !.wrote = res.wrote]
          /\ config' = res.config
          /\ fs' = res.fs
          /\ ret' = Returned("apply", res.ok, <<>>)
    /\ UNCHANGED <<data, input, reader, pc, head_position, header, scanned, last, pass>>
    /\ UNCHANGED <<applied, named, wait, got, guarded, decoded>>

NextPlan ==
    \/ New
    \/ NewScan
    \/ Inspect
    \/ ApplyAll

PlanSpec == InitPlan /\ [][NextPlan]_vars

(***************************************************************************)
(* Properties.                                                             *)
(***************************************************************************)
\* The last call of ZiPatchChunk::read, where there is one.
Called == last # <<>>
Call == last[1]

\* The end of the body the size word of the last call declares, and the
\* bytes of its tag and that body.
BodyEnd == Call.offset + 8 + U32(Call.size)
TagAndBody == SubSeq(data, Call.offset + 5, BodyEnd)

\* C1: in a well-formed patch, after every call of ZiPatchChunk::read that
\* returns a chunk, of whatever kind, the stream is at the position before
\* the call plus 12 plus the size field of the chunk: the size word, the
\* tag, the body and the CRC word (start of the tag plus size plus 8).
C1_PositionAfterChunk ==
    (input.family = "valid" /\ Called /\ Call.ok)
        => Call.r.pos = Call.offset + 12 + U32(Call.size)

\* C1, reached: a target-info command, whose decoder leaves part of the
\* body unread, has been returned and the stream is past its CRC word.
C1_Witness ==
    /\ input.family = "valid" /\ Called /\ Call.ok
    /\ Call.val.type = "SQPK" /\ Call.val.cmd = "T"
    /\ U32(Call.size) > 5 + 27
    /\ Call.r.pos = Call.offset + 12 + U32(Call.size)

\* C1 as stated: the position after the call is the position before it
\* plus 8 plus the size field.
C1_PlusEight ==
    (input.family = "valid" /\ Called /\ Call.ok)
        => Call.r.pos = Call.offset + 8 + U32(Call.size)

\* C2: whenever ZiPatchChunk::read compares the checksums, the value it
\* calculated is the CRC32 of the 4 tag bytes and the `size` body bytes,
\* nothing else, the word it compares with is the one that follows the
\* body, and a chunk is returned only if the two are equal.
C2_ChecksumCoversTagAndBody ==
    (Called /\ Call.compared)
        => /\ Call.calculated = Crc32(TagAndBody)
           /\ Call.trailing = SubSeq(data, BodyEnd + 1, BodyEnd + 4)
           /\ (Call.ok => Call.calculated = Call.trailing)


\* The flipped byte lies in the chunk of the last call, which is the chunk
\* the parser has to fail on.
AtFlippedChunk == input.family = "flipped" /\ Called /\ Call.offset = input.offset

C4_ExpectedIsTrailingWord ==
    (Called /\ Call.compared /\ ~Call.ok)
        => /\ Call.val.kind = "ChecksumMismatch"
           /\ Call.val.expected = SubSeq(data, Call.r.pos - 3, Call.r.pos)
           /\ Call.val.actual = Call.calculated
           /\ Call.val.expected # Call.val.actual

\* C4, reached: an ADIR chunk with a wrong trailing word was refused, and
\* what the reader accumulated is the CRC32 of its tag and body.
C4_Witness ==
    /\ Called /\ Call.compared /\ ~Call.ok
    /\ input.name = "badcrc" /\ Call.chunk_type = TAG_ADIR
    /\ Call.val.actual = Crc32(TagAndBody)
    /\ Call.val.expected = SubSeq(data, BodyEnd + 1, BodyEnd + 4)

\* C4 as stated: `expected` is the accumulated CRC and `actual` the
\* trailing word.
C4_ExpectedIsAccumulated ==
    (Called /\ Call.compared /\ ~Call.ok)
        => /\ Call.val.expected = Call.calculated
           /\ Call.val.actual = SubSeq(data, Call.r.pos - 3, Call.r.pos)

\* The reader as it stands before the body of the chunk of the last call,
\* the first word of that body, and the byte after it.
BodyReader == read_exact(data, init_crc32([pos |-> Call.offset + 4, crc32 |-> Crc32_new]), 4).r
InnerWord == SubSeq(data, Call.offset + 9, Call.offset + 12)
CommandByte == data[Call.offset + 13]

\* The last call was on an SQPK chunk whose inner size is in the stream.
SqpkCalled == Called /\ Call.chunk_type = TAG_SQPK /\ Len(data) >= Call.offset + 12

\* C5: on an SQPK chunk, SqpkCommand::read returns a command only if the
\* inner size is the outer size; if they differ it fails with
\* SqpkSizeMismatch of the two, with nothing read after the inner size,
\* and ZiPatchChunk::read fails with that error.
C5_InnerSizeChecked ==
    SqpkCalled =>
        LET res == SqpkCommand_read(data, BodyReader, Call.size, Call.offset)
        IN  /\ res.ok => InnerWord = Call.size
            /\ InnerWord # Call.size
                   => /\ ~res.ok
                      /\ res.val = [kind |-> "SqpkSizeMismatch", outer |-> Call.size,
                                    inner |-> I32(InnerWord)]
                      /\ res.r.pos = Call.offset + 12
                      /\ ~Call.ok /\ Call.val = res.val

\* C5, reached: a patch-info command whose inner size is 17 in a chunk of
\* size 16 was refused with SqpkSizeMismatch.
C5_Witness ==
    /\ SqpkCalled /\ input.name = "size_mismatch"
    /\ U32(Call.size) = 16 /\ U32(InnerWord) = 17 /\ CommandByte = 88
    /\ ~Call.ok /\ Call.val.kind = "SqpkSizeMismatch" /\ Call.val.inner = 17

\* The tags and the command bytes the format knows.
KnownTags == {TAG_FHDR, TAG_APLY, TAG_APFS, TAG_ADIR, TAG_DELD, TAG_SQPK, TAG_EOF, TAG_XXXX}
KnownCommands == {65, 68, 69, 70, 72, 73, 88, 84}        \* A D E F H I X T

\* The last call read a tag, and the bytes of that tag.
TagCalled == Called /\ Len(data) >= Call.offset + 8
TagBytes == SubSeq(data, Call.offset + 5, Call.offset + 8)

\* The last call was on an SQPK chunk with a command byte not known.
UnknownCommandCalled ==
    /\ SqpkCalled /\ Len(data) >= Call.offset + 13
    /\ CommandByte \notin KnownCommands

\* C6: a chunk with a tag that is not one of the eight fails with
\* UnknownChunkType of the tag (as the string read_chunk_type makes of it)
\* and the position of the size word; an SQPK chunk whose inner size is the
\* outer size and whose command byte is not one of the eight fails with
\* UnknownSqpkCommand of that byte and the position of the size word.
C6_UnknownRefused ==
    /\ (TagCalled /\ TagBytes \notin KnownTags)
           => /\ ~Call.ok
              /\ Call.val = [kind |-> "UnknownChunkType",
                             chunk_type |-> fixed_string(TagBytes),
                             offset |-> Call.offset]
    /\ (UnknownCommandCalled /\ InnerWord = Call.size)
           => /\ ~Call.ok
              /\ Call.val = [kind |-> "UnknownSqpkCommand", command |-> CommandByte,
                             offset |-> Call.offset]

\* C6, reached: an SQPK chunk with the command byte 'Z' after a right inner
\* size was refused with UnknownSqpkCommand at the chunk's offset.
C6_Witness ==
    /\ UnknownCommandCalled /\ InnerWord = Call.size /\ CommandByte = 90
    /\ Call.offset > 12
    /\ ~Call.ok /\ Call.val.kind = "UnknownSqpkCommand" /\ Call.val.offset = Call.offset

\* C6 as stated: every SQPK chunk with an unknown command byte fails with
\* UnknownSqpkCommand.
C6_AnyInnerSize ==
    UnknownCommandCalled => ~Call.ok /\ Call.val.kind = "UnknownSqpkCommand"

\* The last call was on an FHDR chunk whose version word is in the stream;
\* the k-th four-byte word of its body (from 0), and the decoder's result.
FhdrCalled == Called /\ Call.chunk_type = TAG_FHDR /\ Len(data) >= Call.offset + 12
BodyWord(k) == SubSeq(data, Call.offset + 9 + 4 * k, Call.offset + 12 + 4 * k)
BodyHas(n) == Len(data) >= Call.offset + 8 + n

\* C7: FileHeaderChunk::read fails with InvalidFileHeaderVersion whenever
\* the third byte of the version word (bits 16 to 23 of the little-endian
\* word) is neither 2 nor 3, whatever the fourth byte is; with 2 there and
\* the 12 bytes it reads present it succeeds without command counts, and
\* with 3 there and the 60 bytes it reads present it succeeds with the
\* counts taken from the big-endian words that follow.
C7_VersionByteChecked ==
    FhdrCalled =>
        LET res == FileHeaderChunk_read(data, BodyReader)
            version == BodyWord(0)[3]
        IN  /\ version \notin {2, 3}
                => /\ ~res.ok
                   /\ res.val = [kind |-> "InvalidFileHeaderVersion", version |-> version]
                   /\ ~Call.ok /\ Call.val = res.val
            /\ (version = 2 /\ BodyHas(12))
                => res.ok /\ res.val.version = 2 /\ res.val.command_counts = <<>>
            /\ (version = 3 /\ BodyHas(60))
                => /\ res.ok /\ res.val.version = 3
                   /\ res.val.command_counts =
                          <<[add_directories |-> U32(BodyWord(3)),
                             delete_directories |-> U32(BodyWord(4)),
                             total_commands |-> U32(BodyWord(9)),
                             sqpk_add_commands |-> U32(BodyWord(10)),
                             sqpk_delete_commands |-> U32(BodyWord(11)),
                             sqpk_expand_commands |-> U32(BodyWord(12)),
                             sqpk_header_commands |-> U32(BodyWord(13)),
                             sqpk_file_commands |-> U32(BodyWord(14))]>>
            /\ res.ok => version \in {2, 3}

\* C7, reached: a header whose version word has 2 in its third byte and 1
\* in its fourth was returned as a version 2 header without counts.
C7_Witness ==
    /\ FhdrCalled /\ input.family = "version"
    /\ BodyWord(0) = <<0, 0, 2, 1>>
    /\ Call.ok /\ Call.val.version = 2 /\ Call.val.command_counts = <<>>

\* C7 as stated: the read fails with InvalidFileHeaderVersion whenever the
\* upper 16 bits of the version word hold a value other than 2 or 3.
C7_UpperHalfChecked ==
    (FhdrCalled /\ BodyWord(0)[3] + 256 * BodyWord(0)[4] \notin {2, 3})
        => ~Call.ok /\ Call.val.kind = "InvalidFileHeaderVersion"

\* The types of the chunks ZiPatchFile::new has read so far, but the last.
ScannedBefore == SubSeq(scanned, 1, Len(scanned) - 1)
TypesOf(seq) == {seq[i] : i \in DOMAIN seq}

C9_EmptyPatchCounts ==
    /\ (data = EmptyPatch /\ ret.op = "counts" /\ ret.ok)
           => ret.val = [add_directories |-> 0, delete_directories |-> 0,
                         total_commands |-> 0, sqpk_add_commands |-> 0,
                         sqpk_delete_commands |-> 0, sqpk_expand_commands |-> 0,
                         sqpk_header_commands |-> 0, sqpk_file_commands |-> 0]
    /\ (data = EmptyPatch /\ ret.op = "changes" /\ ret.ok)
           => ret.val = [added |-> {}, deleted |-> {}, modified |-> {}]

\* C10: the change set calculate_changed_files returns has no name in both
\* `added` and `modified`.
C10_AddedDisjointFromModified ==
    (ret.op = "changes" /\ ret.ok) => ret.val.added \cap ret.val.modified = {}

\* C10, reached: "x.dat" was added by one file command and modified by a
\* later one, and the change set returned has it in `modified` only.
C10_Witness ==
    /\ ret.op = "changes" /\ ret.ok /\ input.name = "files"
    /\ fixed_string(PathX) \in ret.val.modified
    /\ fixed_string(PathX) \notin ret.val.added
    /\ ret.val.added # {}

\* The change sets the chunks of each well-formed patch stand for, before
\* `added` loses what is in `modified`, written out by hand.
ExpectedPackName(stem, platform, suffix) == stem \o PlatformStr[platform] \o suffix
ExpectedChanges(name, platform) ==
    CASE name = "dirs" ->
            [added |-> {<<97, 47, 98>>}, deleted |-> {<<97, 47, 98>>}, modified |-> {}]
      [] name = "sqpk" ->
            [added |-> {}, deleted |-> {},
             modified |-> {ExpectedPackName(<<47, 115, 113, 112, 97, 99, 107, 47, 101, 120, 49, 47, 48, 97, 48, 49, 48, 48, 46>>, platform, <<46, 100, 97, 116, 49>>)}]
      [] name = "files" ->
            [added |-> {<<120, 46, 100, 97, 116>>, <<97, 47, 98>>},
             deleted |-> {<<121, 46, 100, 97, 116>>, <<115, 113, 112, 97, 99, 107, 47, 101, 120, 49, 47>>, <<109, 111, 118, 105, 101, 47, 101, 120, 49, 47>>},
             modified |-> {<<120, 46, 100, 97, 116>>}]
      [] name = "big" ->
            [added |-> {PackName, <<121, 46, 100, 97, 116>>}, deleted |-> {},
             modified |-> {ExpectedPackName(<<47, 115, 113, 112, 97, 99, 107, 47, 102, 102, 120, 105, 118, 47, 48, 97, 48, 48, 48, 48, 46>>, platform, <<46, 100, 97, 116, 48>>),
                           ExpectedPackName(<<47, 115, 113, 112, 97, 99, 107, 47, 102, 102, 120, 105, 118, 47, 48, 97, 48, 48, 48, 48, 46>>, platform, <<46, 105, 110, 100, 101, 120, 49>>),
                           ExpectedPackName(<<47, 115, 113, 112, 97, 99, 107, 47, 102, 102, 120, 105, 118, 47, 48, 52, 48, 48, 48, 48, 46>>, platform, <<46, 100, 97, 116, 48>>)}]
      [] name = "blocks" ->
            [added |-> {<<121, 46, 100, 97, 116>>}, deleted |-> {},
             modified |-> {ExpectedPackName(<<47, 115, 113, 112, 97, 99, 107, 47, 102, 102, 120, 105, 118, 47, 48, 52, 48, 48, 48, 48, 46>>, platform, <<46, 100, 97, 116, 48>>)}]
      [] OTHER -> [added |-> {}, deleted |-> {}, modified |-> {}]

\* C11: calculate_changed_files puts every chunk before EOF_ into the sets
\* by this mapping and nothing else: ADIR into added, DELD into deleted,
\* SQPK H, A, D and E into modified under the derived .dat or .index name,
\* SQPK F/A into added when file_offset is 0 and into modified otherwise, F/D
\* into deleted, F/M into added, F/R as the two folder names of its expansion
\* into deleted.  While the pass runs its sets hold nothing the chunks of
\* the patch do not stand for, and the sets it returns are those of the
\* patch, `added` without what is in `modified`.
C11_ChangedFilesMapping ==
    /\ (pc = "changes" /\ input.family = "valid")
          => \E e \in {ExpectedChanges(input.name, config.platform)} :
                /\ pass.sets.added \subseteq e.added
                /\ pass.sets.deleted \subseteq e.deleted
                /\ pass.sets.modified \subseteq e.modified
    /\ (ret.op = "changes" /\ ret.ok /\ input.family = "valid")
          => \E e \in {ExpectedChanges(input.name, config.platform)} :
                ret.val = [added |-> e.added \ e.modified, deleted |-> e.deleted,
                           modified |-> e.modified]

\* C11, reached: the pass over ADIR "a/b", DELD "a/b" has returned "a/b" as
\* added and as deleted, and nothing as modified.
C11_Witness ==
    /\ ret.op = "changes" /\ ret.ok /\ input.name = "dirs" /\ input.family = "valid"
    /\ ret.val = [added |-> {<<97, 47, 98>>}, deleted |-> {<<97, 47, 98>>}, modified |-> {}]

\* C12: whenever calculate_changed_files or calculate_actual_counts returns,
\* with its result or with the error of a chunk, the stream is at the
\* position it had when the pass was called, and the configuration and the
\* files of the installation are as they were.
C12_PassRestoresPosition ==
    [][(pc \in {"counts", "changes"} /\ pc' = "open")
          => (reader'.pos = pass.start_pos /\ config' = config /\ fs' = fs)]_vars

\* The last apply, where there is one; the names whose file is new or has
\* other bytes after it than before it; the name the pack file of a
\* command has under a platform.
Applies == applied # <<>>
Apply == applied[1]
AppliesSqpk(cmds) ==
    Applies /\ Apply.chunk.type = "SQPK" /\ Apply.chunk.cmd \in cmds
ChangedNames(before, after) ==
    {p \in DOMAIN after.names :
        \/ p \notin DOMAIN before.names
        \/ after.files[after.names[p]] # before.files[before.names[p]]}
DerivedName(chunk, platform) ==
    IF chunk.cmd = "H" /\ chunk.file_kind = "Index"
    THEN SqpackIndexFile_get_file_name(chunk.target_file, platform)
    ELSE SqpackDatFile_get_file_name(chunk.target_file, platform)

\* C13: every write of applying an SQPK H, A or D command goes to the file
\* whose path is game_path followed by the derived name, a file inside the
\* installation: no other name has a new file or other bytes afterwards.
\* The H command for the version header of pack file 0a/0100, file 0, on
\* Win32 writes its 1024 bytes at offset 0 of
\* game_path + "/sqpack/ex1/0a0100.win32.dat0".
C13_WritesInsideGamePath ==
    /\ (AppliesSqpk({"H", "A", "D"}) /\ Apply.ok)
          => ChangedNames(Apply.fs, fs)
                 \subseteq {Apply.config.game_path \o DerivedName(Apply.chunk, Apply.config.platform)}
    /\ (AppliesSqpk({"H"}) /\ Apply.ok /\ Apply.config.platform = "Win32"
            /\ Apply.chunk.header_kind = "Version" /\ Apply.chunk.file_kind = "Dat"
            /\ Apply.chunk.target_file = [main_id |-> 10, sub_id |-> 256, file_id |-> 0])
          => /\ is_file(fs, GamePath \o <<47, 115, 113, 112, 97, 99, 107, 47, 101, 120, 49, 47, 48, 97, 48, 49, 48, 48, 46, 119, 105, 110, 51, 50, 46, 100, 97, 116, 48>>)
             /\ SubSeq(content(fs, GamePath \o <<47, 115, 113, 112, 97, 99, 107, 47, 101, 120, 49, 47, 48, 97, 48, 49, 48, 48, 46, 119, 105, 110, 51, 50, 46, 100, 97, 116, 48>>), 1, 1024) = Apply.chunk.header_data

\* The pattern of the pack file names, digit by digit: a number in base 16
\* or 10, in at least `width` digits.
NameDigits == <<48, 49, 50, 51, 52, 53, 54, 55, 56, 57, 97, 98, 99, 100, 101, 102>>                      \* "0123456789abcdef"
DigitCount(n, base) ==
    CASE n < base -> 1
      [] n >= base /\ n < base * base -> 2
      [] n >= base * base /\ n < base * base * base -> 3
      [] OTHER -> 4
PatternNumber(n, base, width) ==
    [i \in 1..Max(width, DigitCount(n, base)) |->
        NameDigits[((n \div (base ^ (Max(width, DigitCount(n, base)) - i))) % base) + 1]]
PatternPlatform(platform) ==
    CASE platform = "Win32" -> <<119, 105, 110, 51, 50>>
      [] platform = "Ps3" -> <<112, 115, 51>>
      [] platform = "Ps4" -> <<112, 115, 52>>
      [] platform = "Unknown" -> <<117, 110, 107, 110, 111, 119, 110>>
PatternBase(f, platform) ==
    <<47, 115, 113, 112, 97, 99, 107, 47>>
        \o (IF f.sub_id \div 256 = 0 THEN <<102, 102, 120, 105, 118>>
            ELSE <<101, 120>> \o PatternNumber(f.sub_id \div 256, 10, 1))
        \o <<47>> \o PatternNumber(f.main_id, 16, 2) \o PatternNumber(f.sub_id, 16, 4)
        \o <<46>> \o PatternPlatform(platform)

\* C14: for every (main_id, sub_id, file_id, platform) the .dat name is
\* "/sqpack/{exp}/{main_id:02x}{sub_id:04x}.{platform}.dat{file_id}" and the
\* .index name is the same with ".index", followed by file_id unless it is
\* 0; the hex is lowercase with leading zeros, exp is "ffxiv" when the high
\* byte of sub_id is 0 and "ex{N}" otherwise, and the platform is one of
\* win32, ps3, ps4, unknown.  The name is that of the four values alone.
C14_PackFileNames ==
    named # <<>> =>
        named[1].name =
            PatternBase(named[1].f, named[1].platform)
                \o (IF named[1].kind = "dat"
                    THEN <<46, 100, 97, 116>> \o PatternNumber(named[1].f.file_id, 10, 1)
                    ELSE <<46, 105, 110, 100, 101, 120>> \o (IF named[1].f.file_id = 0 THEN <<>>
                                                      ELSE PatternNumber(named[1].f.file_id, 10, 1)))

\* C14, reached: pack file 0a/0100, file 0, has been named
\* "/sqpack/ex1/0a0100.win32.dat0" for Win32.
C14_Witness ==
    /\ named # <<>>
    /\ named[1].kind = "dat" /\ named[1].platform = "Win32"
    /\ named[1].f = [main_id |-> 10, sub_id |-> 256, file_id |-> 0]
    /\ named[1].name = <<47, 115, 113, 112, 97, 99, 107, 47, 101, 120, 49, 47, 48, 97, 48, 49, 48, 48, 46, 119, 105, 110, 51, 50, 46, 100, 97, 116, 48>>

\* The bytes of the file a name stands for, none when there is no such
\* file; the number in the k-th word of the body of the chunk last read.
BytesOf(fs_, path) == IF is_file(fs_, path) THEN content(fs_, path) ELSE <<>>
BodyNumber(k) == U32(BodyWord(k))

\* The chunk applied last is the chunk read last, so that the words of the
\* stream at the last read are its words.
AppliedLastRead == Call.ok /\ Call.val = Apply.chunk

\* What C15 says of the file an add-data command opens, given its bytes
\* before and after, the three words of the command and the payload.
AddDataFrame(old, new, block_offset, block_number, block_delete_number, payload) ==
    /\ SubSeq(new, block_offset + 1, block_offset + block_number) = payload
    /\ Len(payload) = block_number
    /\ \A i \in (block_offset + block_number + 1)..(block_offset + block_number + block_delete_number) :
           new[i] = 0
    /\ \A i \in 1..Len(old) :
           (i <= block_offset \/ i > block_offset + block_number + block_delete_number)
               => new[i] = old[i]

RECURSIVE ExpandedBlocks(_, _)
ExpandedBlock(block) ==
    IF block.compressed_size = UncompressedMarker THEN block.compressed_block
    ELSE inflate(block.compressed_block).bytes
ExpandedBlocks(blocks, k) ==
    IF k > Len(blocks) THEN <<>>
    ELSE ExpandedBlock(blocks[k]) \o ExpandedBlocks(blocks, k + 1)

\* An add-file command has been applied; the name of its file.
AddFileApplied ==
    AppliesSqpk({"F"}) /\ Apply.chunk.operation = "AddFile" /\ Apply.ok
AddFilePath == resolve_full_path(Apply.config.game_path, Apply.chunk.target_file)

\* What C16 says of the file of an add-file command, given its bytes before,
\* the files after, the offset and the expansion of the blocks.
AddFileFrame(old, fs_, path, file_offset, expanded) ==
    /\ is_file(fs_, path)
    /\ IF file_offset = 0 THEN content(fs_, path) = expanded
       ELSE /\ SubSeq(content(fs_, path), 1, Min(file_offset, Len(old)))
                   = SubSeq(old, 1, Min(file_offset, Len(old)))
            /\ SubSeq(content(fs_, path), file_offset + 1, file_offset + Len(expanded))
                   = expanded

\* C16: after an SQPK F/A command with file_offset 0 has been applied,
\* whatever the file held and whether its stream came from the store or a
\* fresh open, the file holds exactly the expansion of the blocks, in the
\* order of the stream; with file_offset > 0 the bytes before file_offset
\* are kept and the blocks are written from file_offset.
C16_AddFileContent ==
    AddFileApplied
        => AddFileFrame(BytesOf(Apply.fs, AddFilePath), fs, AddFilePath,
                        Apply.chunk.file_offset,
                        ExpandedBlocks(Apply.chunk.compressed_data, 1))

\* C16 for the commands whose stream is not one the store held before.
C16_FreshStream ==
    (AddFileApplied /\ (Apply.config.store = <<>>
                         \/ AddFilePath \notin DOMAIN Apply.config.store[1]))
        => AddFileFrame(BytesOf(Apply.fs, AddFilePath), fs, AddFilePath,
                        Apply.chunk.file_offset,
                        ExpandedBlocks(Apply.chunk.compressed_data, 1))

\* The platform a platform word names; the chunk about to be applied is an
\* SQPK command of one of the given letters.
PlatformNamed(word) ==
    CASE word = 0 -> "Win32"
      [] word = 1 -> "Ps3"
      [] word = 2 -> "Ps4"
      [] OTHER -> "Unknown"
ApplyingSqpk(cmds) ==
    pc = "apply" /\ pass.chunk.type = "SQPK" /\ pass.chunk.cmd \in cmds

\* C17: as the chunks of a patch are applied in the order of the stream,
\* the platform of the configuration changes when a T command is applied
\* and at no other step, to the platform the word of that command names
\* (Ps4 for 2); and an SQPK A, D or H command writes the file named with the
\* platform the configuration has when the command is applied, which is that
\* of the last T command applied before it, or the configured platform.
C17_PlatformInOrder ==
    [][/\ ~ApplyingSqpk({"T"}) => config'.platform = config.platform
       /\ ApplyingSqpk({"T"})
             => config'.platform = PlatformNamed(U16(SubSeq(BodyWord(2), 1, 2)))
       /\ (ApplyingSqpk({"A", "D", "H"}) /\ applied'[1].ok)
             => /\ \A p \in ChangedNames(fs, fs') :
                       ends_with(p, DerivedName(pass.chunk, config.platform))
                /\ \E p \in DOMAIN fs'.names :
                       ends_with(p, DerivedName(pass.chunk, config.platform))]_vars

\* C17, reached: after a T command with word 2, applied to a configuration
\* for another platform, an add-data command has made a file whose name
\* carries "ps4".
C17_Witness ==
    /\ AppliesSqpk({"A"}) /\ Apply.ok
    /\ Apply.config.platform = "Ps4" /\ config.platform = "Ps4"
    /\ \E p \in ChangedNames(Apply.fs, fs) :
           /\ p \notin DOMAIN Apply.fs.names
           /\ ends_with(p, <<46, 112, 115, 52, 46, 100, 97, 116, 48>>)              \* ".ps4.dat0"

\* The calls of wait_for_stream: the attempts made so far, the sleeps, and
\* the events taken k at a time.
Waited == wait.status = "returned"
WaitEvents == IF wait.status = "idle" THEN <<>> ELSE wait.events
Attempts == {k \in 1..Len(WaitEvents) : WaitEvents[k] # "sleep"}
Sleeps == {k \in 1..Len(WaitEvents) : WaitEvents[k] = "sleep"}
WaitResult == wait.result[1]

\* C18: wait_for_stream always returns; called with tries >= 1 it makes at
\* most `tries` attempts to open and sleeps only between two attempts; when
\* every attempt fails with PermissionDenied or WouldBlock it makes exactly
\* `tries` attempts and returns FileStreamRetryExhausted with the path and
\* tries; and it returns a stream as soon as an attempt succeeds.
C18_WaitSafe ==
    (wait.status # "idle" /\ wait.tries >= 1)
        => /\ Cardinality(Attempts) <= wait.tries
           /\ \A k \in Sleeps : k > 1 /\ wait.events[k - 1] # "sleep"
           /\ \A k \in Attempts : wait.events[k] = "Ok" => (Waited /\ k = Len(wait.events))
           /\ Waited
                 => /\ wait.events # <<>> /\ wait.events[Len(wait.events)] # "sleep"
                    /\ \A k \in Sleeps : wait.events[k + 1] # "sleep"
                    /\ WaitResult.ok <=> wait.events[Len(wait.events)] = "Ok"
                    /\ (\A k \in Attempts : wait.events[k] \in RetryableKinds)
                          => /\ Cardinality(Attempts) = wait.tries
                             /\ WaitResult = [ok |-> FALSE,
                                              err |-> [kind |-> "FileStreamRetryExhausted",
                                                       path |-> wait.path,
                                                       tries |-> wait.tries]]
C18_WaitTerminates ==
    /\ []C18_WaitSafe
    /\ (wait.status = "loop") ~> Waited

\* C18, reached: called with more than two tries, the loop has returned
\* FileStreamRetryExhausted after as many refused attempts, and has slept
\* between them.
C18_Witness ==
    /\ Waited /\ wait.tries > 2
    /\ Cardinality(Attempts) = wait.tries /\ Cardinality(Sleeps) = wait.tries - 1
    /\ ~WaitResult.ok /\ WaitResult.err.kind = "FileStreamRetryExhausted"
    /\ \A k \in Attempts : wait.events[k] \in RetryableKinds

\* C19: an attempt that fails with an error other than PermissionDenied and
\* WouldBlock ends the loop at once, and the error returned is that error,
\* whichever attempt it is, the only one of a call with tries 1 included.
C19_OtherErrorReturned ==
    \A k \in Attempts :
        (wait.tries >= 1 /\ wait.events[k] \notin RetryableKinds \cup {"Ok"})
            => /\ Waited /\ k = Len(wait.events)
               /\ WaitResult = [ok |-> FALSE, err |-> IoErrorOf(wait.events[k])]

\* C19 for the attempts that are not the last a call may make.
C19_BeforeLastTry ==
    \A k \in Attempts :
        (wait.events[k] \notin RetryableKinds \cup {"Ok"} /\ wait.remaining_tries > 1)
            => /\ Waited /\ k = Len(wait.events)
               /\ WaitResult = [ok |-> FALSE, err |-> IoErrorOf(wait.events[k])]

\* The store before the k-th call; the files asked for with success in the
\* calls so far, each file by its absolute path.
StoreBefore(k) == IF k = 1 THEN SqexFileStreamStore_new ELSE got[k - 1].store
FilesGot == {absolute(got[k].path) : k \in {j \in 1..Len(got) : got[j].ok}}

\* C20: over any sequence of get_stream calls on one store, a request for a
\* file that an earlier request opened leaves the store as it is (the
\* stream is the one in the store, nothing is opened), the first request
\* for a file adds one stream, no two streams of the store are streams of
\* the same file, the store has as many streams as files were asked for,
\* and a request whose open fails leaves the store unchanged.
C20_OneStreamPerFile ==
    /\ \A k \in 1..Len(got) :
          /\ ~got[k].ok => got[k].store = StoreBefore(k)
          /\ (got[k].ok /\ \E j \in 1..(k - 1) :
                               got[j].ok /\ absolute(got[j].path) = absolute(got[k].path))
                => got[k].store = StoreBefore(k)
          /\ (got[k].ok /\ ~\E j \in 1..(k - 1) :
                                got[j].ok /\ absolute(got[j].path) = absolute(got[k].path))
                => Cardinality(DOMAIN got[k].store) = Cardinality(DOMAIN StoreBefore(k)) + 1
    /\ config.store # <<>>
          => /\ \A p, q \in DOMAIN config.store[1] :
                    config.store[1][p].file = config.store[1][q].file => p = q
             /\ Cardinality(DOMAIN config.store[1]) = Cardinality(FilesGot)

\* C20 for the requests that name the file by its absolute path, and, for
\* any request, the store after an open that fails.
C20_AbsolutePaths ==
    (\A k \in 1..Len(got) : has_root(got[k].path)) => C20_OneStreamPerFile
C20_FailureKeepsStore ==
    \A k \in 1..Len(got) : ~got[k].ok => got[k].store = StoreBefore(k)

\* The configurations that differ from a configuration in the two options
\* at most.
FlagVariants(c) ==
    {[c EXCEPT !.ignore_missing = a, !.ignore_old_mismatch = b] : a, b \in BOOLEAN}
ErrOf(r) == IF r.ok THEN <<>> ELSE <<r.err>>

C21_WitnessWrite ==
    /\ AddFileApplied /\ Apply.config.ignore_old_mismatch
    /\ ChangedNames(Apply.fs, fs) # {}

\* A remove-all command has been applied; the two directories of an
\* expansion under a path; a name that stands directly in one of some
\* directories; a name that ends in ".var" or in "0000d.bk2", d from 0 to 3.
RemoveAllApplied == AppliesSqpk({"F"}) /\ Apply.chunk.operation = "RemoveAll"
ExpansionFolder(id) ==
    IF id = 0 THEN <<102, 102, 120, 105, 118>> ELSE <<101, 120, 48 + id>>
ExpansionDirs(game_path, id) ==
    {game_path \o <<47, 115, 113, 112, 97, 99, 107, 47>> \o ExpansionFolder(id),
     game_path \o <<47, 109, 111, 118, 105, 101, 47>> \o ExpansionFolder(id)}
DirectlyIn(p, ds) ==
    \E d \in ds :
        /\ Len(p) > Len(d) + 1
        /\ SubSeq(p, 1, Len(d)) = d /\ p[Len(d) + 1] = 47
        /\ \A i \in (Len(d) + 2)..Len(p) : p[i] # 47
KeptName(p) ==
    \/ Len(p) >= 4 /\ SubSeq(p, Len(p) - 3, Len(p)) = <<46, 118, 97, 114>>
    \/ /\ Len(p) >= 9
       /\ SubSeq(p, Len(p) - 8, Len(p) - 5) = <<48, 48, 48, 48>>
       /\ p[Len(p) - 4] \in 48..51
       /\ SubSeq(p, Len(p) - 3, Len(p)) = <<46, 98, 107, 50>>

GuardDropped == guarded.status = "dropped"
C23_PositionAfterScope ==
    GuardDropped => guarded.r.pos = guarded.guard.offset_before + guarded.size
\* What holds: the stream never stands before P + S, and it stands beyond
\* only where the decoder has read beyond.
C23_NeverBefore ==
    GuardDropped => guarded.r.pos >= guarded.guard.offset_before + guarded.size
C23_ReadBeyond ==
    /\ GuardDropped
    /\ guarded.r.pos > guarded.guard.offset_before + guarded.size
C23_Witness ==
    /\ GuardDropped
    /\ guarded.failed
    /\ guarded.size > 0
    /\ guarded.r.pos = guarded.guard.offset_after
    /\ guarded.r.pos > Len(guarded.d)


\* C24: when a read fails while the guard drains the unread remainder of a
\* chunk body, because the stream ends inside the body, the guard seeks to
\* the end of the body and ZiPatchChunk::read reports ChecksumMismatch.
\* The decoder of the last call, run again on the body it was run on.
CallDecoded ==
    DecodeBody(data, [pos |-> Call.offset + 8, crc32 |-> Crc32_new],
               Call.chunk_type, Call.size, Call.offset)
\* The last call read a size word and a tag, its decoder stopped before the
\* end of the body, and the stream ends before it: the drain fails.
DrainFails ==
    /\ Called
    /\ Len(data) >= Call.offset + 8
    /\ CallDecoded.r.pos < BodyEnd
    /\ Len(data) < BodyEnd
C24_DrainFailureIsMismatch ==
    DrainFails => ~Call.ok /\ Call.val.kind = "ChecksumMismatch"
\* What the call reports: the error of the decoder where it gave one, else
\* the error of the read of the trailing word; the stream is left at or
\* beyond the end of the body, no checksum compared.
C24_DrainFailureIsError ==
    DrainFails =>
        /\ ~Call.ok
        /\ Call.val = IF CallDecoded.ok THEN IoError ELSE CallDecoded.val
        /\ ~Call.compared
        /\ Call.r.pos >= BodyEnd
C24_DecoderHadValue ==
    /\ DrainFails
    /\ CallDecoded.ok
    /\ Call.val = IoError


\* C25: SqpkCompressedBlock::read_from consumes exactly
\* (payload + 143) & ~0x7F bytes of the stream, the header included, where
\* payload is compressed_size, or decompressed_size for a stored block, for
\* every value of header_size; SqpkFile::read subtracts the same number.
BlockDecoded == decoded # <<>> /\ decoded[1].res.ok
Block == decoded[1].res.val
BlockConsumed == decoded[1].res.r.pos - decoded[1].P
BlockPayload ==
    IF Block.compressed_size # 32000 THEN Block.compressed_size
    ELSE Block.decompressed_size
BlockLength == ((BlockPayload + 143) \div 128) * 128
\* The number SqpkFile::read subtracts for the block.
BlockSubtracted ==
    BlockBytes(Block.header_size,
               Sub32(calculate_compressed_block_length(Block.compressed_size,
                                                       Block.decompressed_size),
                     Block.header_size))
C25_BlockConsumes ==
    BlockDecoded => BlockConsumed = BlockLength /\ BlockSubtracted = BlockLength
\* What holds: the block takes its 16 header bytes and the length less
\* header_size (a stored block: its data and what is left of that, if
\* any), which is the length where header_size is 16.
C25_BlockConsumesFrom16 ==
    BlockDecoded =>
        /\ BlockConsumed =
              IF Block.compressed_size # 32000
              THEN 16 + BlockLength - Block.header_size
              ELSE 16 + Block.decompressed_size
                      + Max(0, BlockLength - Block.header_size - Block.decompressed_size)
        /\ BlockSubtracted = BlockLength
        /\ Block.header_size = 16 => BlockConsumed = BlockLength
C25_OtherHeaderSize ==
    /\ BlockDecoded
    /\ Block.header_size = 0
    /\ BlockConsumed = BlockLength + 16


\* What C26 says of the file a delete-data command opens, given its bytes
\* before and after and the two numbers of the command.
EmptyBlockHeader(block_number) ==
    LE32(128) \o LE32(0) \o LE32(0) \o LE32(block_number - 1) \o LE32(0)
DeleteDataFrame(old, new, block_offset, block_number) ==
    /\ Len(new) >= block_offset + 128 * block_number
    /\ \A i \in (block_offset + 1)..(block_offset + 128 * block_number) :
           new[i] = IF i <= block_offset + 20
                    THEN EmptyBlockHeader(block_number)[i - block_offset]
                    ELSE 0
    /\ \A i \in 1..Len(old) :
           (i <= block_offset \/ i > block_offset + 128 * block_number)
               => new[i] = old[i]
DeleteDataApplied == AppliesSqpk({"D"}) /\ Apply.ok /\ AppliedLastRead
DeleteDataFile == SqpackDatFile_full_path(Apply.chunk.target_file, Apply.config)

\* C26: after an SQPK D command has been applied, the bytes
\* [block_offset, block_offset + block_number * 128) of its file are the
\* 20-byte header (128, 0, 0, block_number - 1, 0) and then zeros, and no
\* byte outside that range has changed, for every block_number, 0 included.
C26_DeleteDataWrites ==
    DeleteDataApplied
        => DeleteDataFrame(BytesOf(Apply.fs, DeleteDataFile), BytesOf(fs, DeleteDataFile),
                           128 * BodyNumber(4), BodyNumber(5))
\* The same for the commands of one block or more; a command of no block
\* writes the 20 bytes of the header all the same.
C26_DeleteDataBlocks ==
    DeleteDataApplied
        => IF BodyNumber(5) >= 1
           THEN DeleteDataFrame(BytesOf(Apply.fs, DeleteDataFile), BytesOf(fs, DeleteDataFile),
                                128 * BodyNumber(4), BodyNumber(5))
           ELSE /\ SubSeq(BytesOf(fs, DeleteDataFile), 128 * BodyNumber(4) + 1,
                          128 * BodyNumber(4) + 20) = EmptyBlockHeader(0)
                /\ \A i \in 1..Len(BytesOf(Apply.fs, DeleteDataFile)) :
                       (i <= 128 * BodyNumber(4) \/ i > 128 * BodyNumber(4) + 20)
                           => BytesOf(fs, DeleteDataFile)[i] = BytesOf(Apply.fs, DeleteDataFile)[i]
C26_NoBlock ==
    /\ DeleteDataApplied
    /\ BodyNumber(5) = 0
    /\ Len(BytesOf(Apply.fs, DeleteDataFile)) >= 128 * BodyNumber(4) + 20
C26_TwoBlocks ==
    /\ DeleteDataApplied
    /\ BodyNumber(5) = 2
    /\ Len(BytesOf(Apply.fs, DeleteDataFile)) >= 128 * BodyNumber(4) + 256


\* The items the running iterator has given, and what ends an iterator.
Items == IF pc = "iter" THEN pass.items ELSE <<>>
IsSome(k) == Items[k] # <<>>
Item(k) == Items[k][1]
Ends(k) == IsSome(k) /\ (Item(k).ok => Item(k).val.type = "EOF_")
\* Item k, an item that is Some, is what the stream holds where the item
\* before it ended, the first one at the position after the magic; no item
\* before it is None, EOF_ or an error.
InStreamOrder(k) ==
    /\ \A j \in 1..(k - 1) : IsSome(j) /\ ~Ends(j)
    /\ Item(k).offset = IF k = 1 THEN head_position ELSE Item(k - 1).r.pos
    /\ k > 1 => Item(k).offset > Item(k - 1).offset
    /\ \E c \in {ZiPatchChunk_read(data, [pos |-> Item(k).offset, crc32 |-> Crc32_new])} :
           c.ok = Item(k).ok /\ c.val = Item(k).val
ItemsInOrder ==
    \A k \in 1..Len(Items) :
        IF IsSome(k) THEN InStreamOrder(k)
        ELSE \E j \in 1..(k - 1) : Ends(j)
\* chunks() takes the position to restore and moves to the first chunk; the
\* end of the iterator puts the stream back there.
IterRestores ==
    /\ (pc = "open" /\ pc' = "iter") =>
           pass'.start_pos = reader.pos /\ reader'.pos = head_position
    /\ (pc = "iter" /\ pc' = "open") => reader'.pos = pass.start_pos

\* C27: the iterator of ZiPatchFile::chunks gives the chunks in stream
\* order from the position after the magic; after EOF_, and after the first
\* chunk that fails to decode, which it gives once, it gives None on every
\* call; when it is dropped the stream is back at the position it had
\* before chunks() was called.
C27_IteratorOrder == []ItemsInOrder /\ [][IterRestores]_vars
\* C27, reached: EOF_ and then None twice; and an error and then None
\* twice, from an iterator that was made where the stream did not stand at
\* the first chunk.
C27_Witness ==
    /\ Len(Items) >= 5
    /\ IsSome(Len(Items) - 2)
    /\ Item(Len(Items) - 2).ok /\ Item(Len(Items) - 2).val.type = "EOF_"
    /\ ~IsSome(Len(Items) - 1) /\ ~IsSome(Len(Items))
C27_WitnessError ==
    /\ Len(Items) >= 4
    /\ IsSome(Len(Items) - 2) /\ ~Item(Len(Items) - 2).ok
    /\ ~IsSome(Len(Items) - 1) /\ ~IsSome(Len(Items))
    /\ pass.start_pos # head_position


\* The three checks of a chunk, by the bytes of the stream at the last call
\* of ZiPatchChunk::read: the word after the body is not the checksum the
\* reader has accumulated over tag and body, the inner size of an SQPK
\* chunk is not its size, the tag is not one of the format.
BadSum ==
    /\ Called /\ Call.compared /\ Len(data) >= BodyEnd + 4
    /\ SubSeq(data, BodyEnd + 1, BodyEnd + 4) # Call.calculated
BadSize == SqpkCalled /\ InnerWord # Call.size
BadTag == TagCalled /\ SubSeq(data, Call.offset + 5, Call.offset + 8) \notin KnownTags
CheckFails == BadSum \/ BadSize \/ BadTag
\* A step of the pass that decodes: next on the iterator.
Decodes == pc = "chunks" /\ ~pass.done
ChecksKeepOff ==
    /\ Decodes => config' = config /\ fs' = fs /\ applied' = applied
    /\ (Decodes /\ CheckFails') =>
           /\ pc' = "open" /\ pass' = NoPass
           /\ ~last'[1].ok
           /\ ret' = Returned("apply", FALSE, last'[1].val)
    /\ (config' # config \/ fs' # fs \/ applied' # applied) =>
           /\ pc = "apply"
           /\ ~CheckFails /\ Call.ok
           /\ applied'[1].chunk = Call.val

\* C28: in a pass that iterates and applies, nothing is changed in the file
\* system or the configuration on behalf of a chunk whose checksum, SQPK
\* size or tag check fails: decoding changes nothing, the failing chunk is
\* not handed to apply, the pass ends there, so no later chunk is decoded
\* or applied, and what the chunks before it have changed stays.
C28_FailedCheckAppliesNothing == [][ChecksKeepOff]_vars
\* C28, reached: the pass has ended with the error of a check, after a
\* chunk that was applied and has changed the files, which are as that
\* chunk left them.
FailedAfterApply(kind) ==
    /\ pc = "open" /\ ret.op = "apply" /\ ~ret.ok
    /\ Called /\ ~Call.ok /\ ret.val = Call.val /\ Call.val.kind = kind
    /\ Applies /\ Apply.ok
C28_Witness ==
    /\ FailedAfterApply("ChecksumMismatch")
    /\ fs # Apply.fs
    /\ fs = ZiPatchChunk_apply(Apply.chunk, Apply.config, Apply.fs).fs
C28_WitnessSize ==
    /\ FailedAfterApply("SqpkSizeMismatch")
    /\ config # Apply.config
C28_WitnessTag ==
    /\ FailedAfterApply("UnknownChunkType")
    /\ fs # Apply.fs


\* The files the change set the caller keeps names as modified, as paths in
\* the installation.
ReportedModified ==
    {absolute(resolve_full_path(config.game_path, n)) : n \in plan.kept[1].val.modified}
\* The patch was inspected and then applied, to its end, from the
\* configuration it was inspected with.
InspectedAndApplied ==
    /\ plan.kept # <<>> /\ plan.kept[1].ok
    /\ plan.passes = 1 /\ plan.ok
    /\ plan.from = <<plan.kept[1].platform>>

\* C29: the pack files calculate_changed_files reports as modified for the
\* H, A and D commands of a patch are the pack files these commands resolve
\* and write when the patch is applied in order from the same
\* configuration, also where T commands switch the platform on the way.
C29_ReportedIsWritten ==
    InspectedAndApplied => ReportedModified = plan.wrote
\* The same for the patches without a T command that names another
\* platform than the one of the configuration; with one, the files reported
\* are those the commands would write if the platform stayed.
C29_WithoutSwitch ==
    (InspectedAndApplied /\ input.name # "platform") => ReportedModified = plan.wrote
C29_Switched ==
    /\ InspectedAndApplied /\ input.name = "platform"
    /\ plan.from = <<"Win32">> /\ config.platform # "Win32"
    /\ \E p \in plan.wrote : p \notin ReportedModified

(***************************************************************************)
(* The same decoded command applied twice in a row.                        *)
(***************************************************************************)
\* The commands the second apply of which is to change nothing: ADIR, APLY,
\* SQPK T, H, A, D, and F/A with file_offset 0.
Repeatable(chunk) ==
    \/ chunk.type \in {"ADIR", "APLY"}
    \/ /\ chunk.type = "SQPK"
       /\ \/ chunk.cmd \in {"T", "H", "A", "D"}
          \/ chunk.cmd = "F" /\ chunk.operation = "AddFile" /\ chunk.file_offset = 0
AppliedAgain == applied # <<>> /\ Apply.again /\ Repeatable(Apply.chunk)
ConfigOptions(c) == [c EXCEPT !.store = <<>>]
\* The installation as its users see it: the directories, and the bytes
\* under each name.
Installation(fs_) ==
    [dirs |-> fs_.dirs, files |-> [p \in DOMAIN fs_.names |-> fs_.files[fs_.names[p]]]]
SameInstallation == Installation(fs) = Installation(Apply.fs)

C30_StoreKept == AppliedAgain => config.store = Apply.config.store

====
